---- MODULE Spec2Model ----
(***************************************************************************)
(* Ingestion pipeline of the Cornell Law RAG agent: change detection       *)
(* (ChangeDetector), the populate write path (populateDatabase,            *)
(* handleNewContent, handleUpdatedContent) and the two tables it writes    *)
(* (resources, embeddings).                                                *)
(*                                                                         *)
(* One populate run is a single sequential async function; every `await`   *)
(* on the store or on the embedding service is one step, which either      *)
(* returns or throws.                                                      *)
(*                                                                         *)
(* Beside it: the crawl (scrapeCornellLawChapters, specification           *)
(* CrawlSpec), the read path (runAgent and findSimilarResources over a     *)
(* filled store, SearchSpec) and the read path running while a populate    *)
(* run writes (ConcurrentSpec).                                            *)
(***************************************************************************)
EXTENDS Integers, Sequences, FiniteSets, TLC

\* ------------------------------------------------------------------ bounds

\* Number of commands (populate runs and previews) explored.
MaxRuns == 2
\* Number of store / embedding-service calls that throw, over all runs.
MaxFaults == 1

\* ------------------------------------------------------- program constants

\* processBatch keeps a scraped page only if content.length > 50.
MinContentLength == 50

\* ------------------------------------------------------------ scraped data

\* The URLs scrapeAllSections visits, by section number. The code visits
\* eleven (1001..1010 and 1101); the first two stand for them.
allUrls == << 1001, 1002 >>

\* A page text, abstracted to what the pipeline can tell apart: its wording
\* (body), whether it carries whitespace that cleanLegalText removes
\* (spaced), and its length in characters.
PageTexts ==
    { [body |-> "a", spaced |-> FALSE, len |-> 60],
      [body |-> "b", spaced |-> TRUE,  len |-> 1201],
      [body |-> "c", spaced |-> FALSE, len |-> 40] }

\* CryptoJS.SHA256(content).toString(): a digest of the exact text, taken
\* here as collision-free.
generateContentHash(content) == <<"sha256", content>>

\* The h1 of a section page.
TitleOf(url) == <<"title", url>>

\* scrapeSectionPage hashing the url together with the text.
ScrapedContent_saltedHash(url, content) ==
    [ url         |-> url,
      title       |-> TitleOf(url),
      content     |-> content,
      contentHash |-> generateContentHash(<<url, content>>) ]

\* scrapeSectionPage: the ScrapedContent record of one page.
ScrapedContent(url, content) ==
    [ url         |-> url,
      title       |-> TitleOf(url),
      content     |-> content,
      contentHash |-> generateContentHash(content) ]

\* What scrapeAllSections can return: for each URL, in order, either no
\* entry (probe or scrape failed) or one entry with the page's text.
RECURSIVE ScrapeResults(_)
ScrapeResults(i) ==
    IF i > Len(allUrls) THEN { <<>> }
    ELSE LET rest == ScrapeResults(i + 1)
         IN  rest \cup
             { <<ScrapedContent(allUrls[i], c)>> \o r : c \in PageTexts, r \in rest }

\* ------------------------------------------------------- legal processing

\* cleanLegalText: normalises whitespace and punctuation spacing.
cleanLegalText(text) ==
    [ body   |-> text.body,
      spaced |-> FALSE,
      len    |-> IF text.spaced THEN text.len - 1 ELSE text.len ]

\* Number of chunks chunkLegalText cuts a cleaned text into.
NumLegalChunks(content) == IF content.body = "a" THEN 2 ELSE 1

\* chunkLegalText: a pure function of (content, title).
chunkLegalText(content, title) ==
    [ j \in 1..NumLegalChunks(content) |->
        [ title |-> title, body |-> content.body, part |-> j ] ]

\* processLegalText
processLegalText(scraped) ==
    LET cleanContent == cleanLegalText(scraped.content)
    IN  [ title     |-> scraped.title,
          content   |-> cleanContent,
          chunks    |-> chunkLegalText(cleanContent, scraped.title),
          sourceUrl |-> scraped.url ]

\* processBatch: drop short pages, process the rest. (SelectSeq is
\* Array.prototype.filter.)
processBatch_keepAll(scrapedContents) ==
    [ i \in 1..Len(scrapedContents) |-> processLegalText(scrapedContents[i]) ]
processBatch(scrapedContents) ==
    LET kept == SelectSeq(scrapedContents, LAMBDA c : c.content.len > MinContentLength)
    IN  [ i \in 1..Len(kept) |-> processLegalText(kept[i]) ]

\* ------------------------------------------------------------- embeddings

\* Number of windows chunkText cuts a legal chunk into (1000 characters per
\* window, 200 of overlap): one for a short chunk, more for a long one.
NumWindows(chunk) == IF chunk.body = "b" THEN 2 ELSE 1

\* chunkText
chunkText(text) ==
    [ w \in 1..NumWindows(text) |-> [ text |-> text, window |-> w ] ]

\* The vectors the embedding service returns, cut down to two dimensions.
\* The service never returns the zero vector.
Vectors == { << 1, 0 >>, << 0, 1 >>, << 1, 1 >>, << -1, 0 >> }

\* createEmbedding: the embedding service as a function of the text. Which
\* vector stands for which text is arbitrary.
createEmbedding(text) ==
    IF text.window > 1 THEN << -1, 0 >>
    ELSE IF text.text.body = "b" THEN << 1, 1 >>
    ELSE IF text.text.part = 1 THEN << 1, 0 >>
    ELSE << 0, 1 >>

\* The rows createEmbeddingsForResource inserts for one legal chunk.
RowsForChunk(resourceId, chunk) ==
    LET windows == chunkText(chunk)
    IN  [ w \in 1..Len(windows) |->
            [ resourceId |-> resourceId,
              content    |-> windows[w],
              embedding  |-> createEmbedding(windows[w]) ] ]

\* The rows the write path inserts for a document, in insertion order: the
\* loop over processedContent.chunks around createEmbeddingsForResource.
RECURSIVE RowsFrom(_, _, _)
RowsFrom(resourceId, chunks, j) ==
    IF j > Len(chunks) THEN <<>>
    ELSE RowsForChunk(resourceId, chunks[j]) \o RowsFrom(resourceId, chunks, j + 1)

EmbeddingRows(resourceId, chunks) == RowsFrom(resourceId, chunks, 1)

\* The embeddings rows of one resource, in storage order.
RowsOf(table, id) == SelectSeq(table, LAMBDA e : e.resourceId = id)

\* ------------------------------------------------------------------ state

VARIABLES
    resources,          \* the resources table: resources[id] is the row with that id
    embeddings,         \* the embeddings table, in storage order
    now,                \* the clock new Date() reads: the number of the current run
    pc,                 \* position of populateDatabase
    scrapedContents,    \* result of scrapeCornellLawChapters in this run
    changeResults,      \* results of detectChanges, as far as it got
    toProcess,          \* [...newContent, ...updatedContent]
    processedContents,  \* result of processBatch
    i,                  \* index of the loop populateDatabase is in
    resourceId,         \* id of the resource the write path is working on
    inserted,           \* embedding rows the write path has inserted for it
    faults,             \* calls that have thrown so far
    lookupThrew,        \* history: lookupThrew[n] iff the lookup for input n threw
    writeLog,           \* history: how the write of each processed document ended
    atStart,            \* history: the two tables as they were when the run began
    previous            \* history: the pages of the last completed run, and
                        \* whether every write of that run succeeded

vars == << resources, embeddings, now, pc, scrapedContents, changeResults, toProcess,
           processedContents, i, resourceId, inserted, faults, lookupThrew, writeLog,
           atStart, previous >>

store == << resources, embeddings >>
locals == << scrapedContents, changeResults, toProcess, processedContents >>
history == << lookupThrew, writeLog, atStart, previous >>

\* The state of one call of scrapeCornellLawChapters.
VARIABLES
    browser,            \* CornellLawScraper.browser: "null", "launched" or "closed"
    launches,           \* history: calls of chromium.launch that returned
    crawlPc,            \* position of scrapeCornellLawChapters
    urlAt,              \* the loop index of scrapeAllSections, from 1
    crawlResults,       \* the results array of scrapeAllSections
    isValid,            \* what validateUrl returned for the current URL
    pageResult,         \* result of scrapeSingleSection: << >> for null, or << r >>
    openPages,          \* pages opened with newPage and not closed
    crawlLog            \* history: the requests and delays issued, in order

crawler == << browser, launches, crawlPc, urlAt, crawlResults, isValid, pageResult, openPages,
              crawlLog >>

\* The state of one call of runAgent or of findSimilarResources.
VARIABLES
    agentPc,            \* position of the call
    caller,             \* "runAgent", or "direct" for a call of findSimilarResources
    limit,              \* the limit argument of findSimilarResources
    queryEmbedding,     \* the embedding of the query
    allEmbeddings,      \* the rows the select returned
    searchResults,      \* what findSimilarResources returned
    generated,          \* history: the contexts generateText was called with
    embedThrew,         \* history: embedding the query threw in this call
    torn                \* history: the select read a document's chunks while
                        \* handleUpdatedContent was replacing them

reader == << agentPc, caller, limit, queryEmbedding, allEmbeddings, searchResults,
             generated, embedThrew, torn >>

\* Calls of LegalContentProcessor's chunker with one pair of arguments.
VARIABLES
    legalContent,       \* the content argument, a cleaned text (its tokens)
    legalTitle,         \* the title argument
    legalCalls          \* history: what each call so far returned, and the
                        \* number of resources stored when it ran

chunker == << legalContent, legalTitle, legalCalls >>

\* One call of chunkText(text, chunkSize, chunkOverlap).
VARIABLES
    cutText,            \* the text argument, a sequence of characters
    chunkSize,          \* the chunkSize argument
    chunkOverlap,       \* the chunkOverlap argument
    cutStart,           \* the local start
    cutChunks,          \* the local chunks
    cutWindows,         \* history: the [start, end) of each slice taken
    cutPc               \* position of chunkText: "idle", "loop" or "returned"

cutter == << cutText, chunkSize, chunkOverlap, cutStart, cutChunks, cutWindows, cutPc >>

\* One run of the create-embeddings script.
VARIABLES
    resourcesWithoutEmbeddings, \* the ids of the rows the left join returned
    fillAt,             \* the loop index of createMissingEmbeddings, from 1
    fillInserted,       \* embeddings rows inserted for the current resource
    fillPc,             \* position of createMissingEmbeddings
    fillLog,            \* history: how each resource of the loop ended
    fillFaults,         \* history: calls of the script that threw
    fillStart           \* history: the embeddings table when the script started

backfill == << resourcesWithoutEmbeddings, fillAt, fillInserted, fillPc, fillLog, fillFaults,
               fillStart >>

\* One call of splitIntoSentences(text).
VARIABLES
    splitText,          \* the text argument, a sequence of characters
    processedText,      \* the local processedText; each character carries the
                        \* positions lo..hi of the text it stands for
    splitSentences,     \* what the call returned
    splitPc             \* position of splitIntoSentences

splitter == << splitText, processedText, splitSentences, splitPc >>

\* The calls followed on their own, outside the pipeline.
tools == << cutter, backfill, splitter >>

\* What the populate pipeline, a crawl, the read path and the chunker calls
\* leave alone.
besidePipeline == << crawler, reader, chunker, tools >>
besideCrawler == << vars, reader, chunker, tools >>
besideReader == << vars, crawler, chunker, tools >>
besideChunker == << now, pc, locals, i, resourceId, inserted, faults, history,
                    crawler, reader, tools >>
besideCutter == << vars, crawler, reader, chunker, backfill, splitter >>
besideBackfill == << now, pc, locals, i, resourceId, inserted, faults, history,
                     crawler, reader, chunker, cutter, splitter >>
besideSplitter == << vars, crawler, reader, chunker, cutter, backfill >>

\* No run has completed yet.
NoRun == [ completed |-> FALSE, scraped |-> << >>, written |-> FALSE, failed |-> { } ]

\* The outcomes of a write that threw in createEmbeddingsForResource, after
\* the Document had been inserted or updated.
EmbedStage == { "embedding threw", "chunk insert threw" }

\* The run that has just ended, as the next run will remember it.
Completed ==
    [ completed |-> TRUE,
      scraped   |-> scrapedContents,
      written   |-> \A n \in 1..Len(writeLog) : writeLog[n].outcome = "written",
      failed    |-> { writeLog[n].resourceId :
                        n \in { m \in 1..Len(writeLog) : writeLog[m].outcome \in EmbedStage } } ]

\* No call of runAgent or findSimilarResources has been made.
NoResults == [ kind |-> "none", items |-> << >> ]
ReaderInit ==
    /\ agentPc = "idle"
    /\ caller = "none"
    /\ limit = 0
    /\ queryEmbedding = << >>
    /\ allEmbeddings = << >>
    /\ searchResults = NoResults
    /\ generated = << >>
    /\ embedThrew = FALSE
    /\ torn = FALSE

\* No populate run or preview has been started.
PipelineIdle ==
    /\ now = 0
    /\ pc = "idle"
    /\ scrapedContents = << >>
    /\ changeResults = << >>
    /\ toProcess = << >>
    /\ processedContents = << >>
    /\ i = 0
    /\ resourceId = 0
    /\ inserted = 0
    /\ faults = 0
    /\ lookupThrew = << >>
    /\ writeLog = << >>
    /\ previous = NoRun

\* A CornellLawScraper that has just been constructed.
CrawlerInit ==
    /\ browser = "null"
    /\ launches = 0
    /\ crawlPc = "init"
    /\ urlAt = 1
    /\ crawlResults = << >>
    /\ isValid = FALSE
    /\ pageResult = << >>
    /\ openPages = 0
    /\ crawlLog = << >>

\* No call of chunkText is being followed.
CutterIdle ==
    /\ cutText = << >>
    /\ chunkSize = 0
    /\ chunkOverlap = 0
    /\ cutStart = 0
    /\ cutChunks = << >>
    /\ cutWindows = << >>
    /\ cutPc = "idle"

\* The create-embeddings script has not been started.
BackfillIdle ==
    /\ resourcesWithoutEmbeddings = << >>
    /\ fillAt = 0
    /\ fillInserted = 0
    /\ fillPc = "idle"
    /\ fillLog = << >>
    /\ fillFaults = 0
    /\ fillStart = << >>

\* No call of splitIntoSentences is being followed.
SplitterIdle ==
    /\ splitText = << >>
    /\ processedText = << >>
    /\ splitSentences = << >>
    /\ splitPc = "idle"

\* None of the stand-alone calls is being followed.
ToolsIdle == CutterIdle /\ BackfillIdle /\ SplitterIdle

\* No call of the chunker is being followed.
ChunkerIdle ==
    /\ legalContent = << >>
    /\ legalTitle = [ name |-> "none", len |-> 0 ]
    /\ legalCalls = << >>

\* The empty store, with nothing running.
Init ==
    /\ resources = << >>
    /\ embeddings = << >>
    /\ atStart = << << >>, << >> >>
    /\ PipelineIdle
    /\ CrawlerInit
    /\ ReaderInit
    /\ ChunkerIdle
    /\ ToolsIdle

\* A call on the store or the embedding service may throw.
MayThrow == faults < MaxFaults

\* ------------------------------------------------------- change detection

\* db.select().from(resources).where(eq(resources.sourceUrl, url)): the ids
\* of the rows with that URL. limit(1) returns any one of them.
RowsWithUrl(url) == { id \in DOMAIN resources : resources[id].sourceUrl = url }

\* detectSingleChange, no row found.
ResultNew(content) ==
    [ url |-> content.url, changeType |-> "new", newHash |-> content.contentHash ]

\* The catch block failing closed: it reports the page as unchanged.
ResultOnError_unchanged(content) ==
    [ url |-> content.url, changeType |-> "unchanged", newHash |-> content.contentHash ]

\* detectSingleChange, the catch block: the lookup threw.
ResultOnError(content) ==
    [ url |-> content.url, changeType |-> "new", newHash |-> content.contentHash ]

\* ResultFound reporting the stored hash as the new hash.
ResultFound_storedHash(content, id) ==
    [ url        |-> content.url,
      changeType |-> IF resources[id].contentHash = content.contentHash
                     THEN "unchanged" ELSE "updated",
      oldHash    |-> resources[id].contentHash,
      newHash    |-> resources[id].contentHash,
      resourceId |-> id ]

\* ResultFound leaving out the id of the row it found.
ResultFound_noId(content, id) ==
    [ url        |-> content.url,
      changeType |-> IF resources[id].contentHash = content.contentHash
                     THEN "unchanged" ELSE "updated",
      oldHash    |-> resources[id].contentHash,
      newHash    |-> content.contentHash ]

\* ResultFound with the comparison inverted.
ResultFound_inverted(content, id) ==
    [ url        |-> content.url,
      changeType |-> IF resources[id].contentHash # content.contentHash
                     THEN "unchanged" ELSE "updated",
      oldHash    |-> resources[id].contentHash,
      newHash    |-> content.contentHash,
      resourceId |-> id ]

\* detectSingleChange, a row was found: compare the hashes.
ResultFound(content, id) ==
    [ url        |-> content.url,
      changeType |-> IF resources[id].contentHash = content.contentHash
                     THEN "unchanged" ELSE "updated",
      oldHash    |-> resources[id].contentHash,
      newHash    |-> content.contentHash,
      resourceId |-> id ]

\* result.resourceId is set.
HasResourceId(result) == "resourceId" \in DOMAIN result

\* getUrlsToProcess handing every record to the write loop.
getUrlsToProcess_all(results) == results

\* getUrlsToProcess followed by [...newContent, ...updatedContent].
getUrlsToProcess(results) ==
    SelectSeq(results, LAMBDA r : r.changeType = "new") \o
    SelectSeq(results, LAMBDA r : r.changeType = "updated")

\* changeResults.filter(r => r.changeType === 'unchanged')
UnchangedResults(results) == SelectSeq(results, LAMBDA r : r.changeType = "unchanged")

\* scrapedContents.filter(content => toProcess.some(change => change.url === content.url))
ContentToProcess(scraped, changes) ==
    SelectSeq(scraped, LAMBDA c : \E n \in 1..Len(changes) : changes[n].url = c.url)

\* toProcess.find(change => change.url === processedContent.metadata.sourceUrl)
FindChange(changes, url) == SelectSeq(changes, LAMBDA r : r.url = url)

\* --------------------------------------------------------- store operations

\* cleanupOldEmbeddings with the condition inverted: it deletes the rows of
\* every other resource.
cleanupOldEmbeddings_others(id) == SelectSeq(embeddings, LAMBDA e : e.resourceId = id)

\* cleanupOldEmbeddings deleting nothing.
cleanupOldEmbeddings_nothing(id) == embeddings

\* cleanupOldEmbeddings: delete every embeddings row of the resource.
cleanupOldEmbeddings(id) == SelectSeq(embeddings, LAMBDA e : e.resourceId # id)

\* updateResource: content, title, hash and timestamp of one row.
updateResource(id, processedContent, contentHash) ==
    [ resources EXCEPT ![id] =
        [ @ EXCEPT !.content     = processedContent.content,
                   !.title       = processedContent.title,
                   !.contentHash = contentHash,
                   !.lastScraped = now ] ]

\* handleNewContent storing the hash of the cleaned content.
InsertResource_hashOfCleaned(processedContent, contentHash) ==
    Append(resources,
           [ sourceUrl   |-> processedContent.sourceUrl,
             content     |-> processedContent.content,
             title       |-> processedContent.title,
             contentHash |-> generateContentHash(processedContent.content),
             lastScraped |-> now ])

\* handleNewContent: db.insert(resources).values({...}).returning()
InsertResource(processedContent, contentHash) ==
    Append(resources,
           [ sourceUrl   |-> processedContent.sourceUrl,
             content     |-> processedContent.content,
             title       |-> processedContent.title,
             contentHash |-> contentHash,
             lastScraped |-> now ])

\* updateLastScrapedTimestamp: set({ lastScraped: new Date() }) on one row.
TouchResource(id) == [ resources EXCEPT ![id].lastScraped = now ]

\* ---------------------------------------------------------------- actions

\* No command is running: none was started yet, or the last one returned
\* (populate: "done", preview: "previewed") or threw ("failed").
Ended == { "idle", "done", "previewed", "failed" }

\* populateDatabase is called; scrapeCornellLawChapters returns.
StartRun ==
    /\ UNCHANGED besidePipeline
    /\ pc \in Ended
    /\ now < MaxRuns
    /\ \E scraped \in ScrapeResults(1) : scrapedContents' = scraped
    /\ now' = now + 1
    /\ pc' = "detect"
    /\ changeResults' = << >>
    /\ toProcess' = << >>
    /\ processedContents' = << >>
    /\ i' = 0
    /\ lookupThrew' = << >>
    /\ writeLog' = << >>
    /\ atStart' = store
    /\ previous' = IF pc = "done" THEN Completed ELSE previous
    /\ UNCHANGED << store, resourceId, inserted, faults >>

\* populateDatabase or previewChanges is called; scrapeCornellLawChapters
\* throws (the browser cannot be launched) and the catch rethrows.
ScrapeThrows ==
    /\ UNCHANGED besidePipeline
    /\ pc \in Ended
    /\ now < MaxRuns
    /\ now' = now + 1
    /\ pc' = "failed"
    /\ scrapedContents' = << >>
    /\ changeResults' = << >>
    /\ toProcess' = << >>
    /\ processedContents' = << >>
    /\ i' = 0
    /\ lookupThrew' = << >>
    /\ writeLog' = << >>
    /\ atStart' = store
    /\ previous' = IF pc = "done" THEN Completed ELSE previous
    /\ UNCHANGED << store, resourceId, inserted, faults >>

\* previewChanges is called; scrapeCornellLawChapters returns.
StartPreview ==
    /\ UNCHANGED besidePipeline
    /\ pc \in Ended
    /\ now < MaxRuns
    /\ \E scraped \in ScrapeResults(1) : scrapedContents' = scraped
    /\ now' = now + 1
    /\ pc' = "preview"
    /\ changeResults' = << >>
    /\ toProcess' = << >>
    /\ processedContents' = << >>
    /\ i' = 0
    /\ lookupThrew' = << >>
    /\ writeLog' = << >>
    /\ atStart' = store
    /\ previous' = IF pc = "done" THEN Completed ELSE previous
    /\ UNCHANGED << store, resourceId, inserted, faults >>

\* One iteration of the loop of detectChanges, called by populateDatabase
\* or by previewChanges: detectSingleChange on the next scraped page.
DetectSingleChange ==
    /\ UNCHANGED besidePipeline
    /\ pc \in { "detect", "preview" }
    /\ Len(changeResults) < Len(scrapedContents)
    /\ LET content == scrapedContents[Len(changeResults) + 1]
           existingResource == RowsWithUrl(content.url)
       IN  \/ /\ existingResource = { }
              /\ changeResults' = Append(changeResults, ResultNew(content))
              /\ lookupThrew' = Append(lookupThrew, FALSE)
              /\ UNCHANGED faults
           \/ /\ \E id \in existingResource :
                    changeResults' = Append(changeResults, ResultFound(content, id))
              /\ lookupThrew' = Append(lookupThrew, FALSE)
              /\ UNCHANGED faults
           \/ /\ MayThrow
              /\ faults' = faults + 1
              /\ changeResults' = Append(changeResults, ResultOnError(content))
              /\ lookupThrew' = Append(lookupThrew, TRUE)
    /\ UNCHANGED << store, now, pc, scrapedContents, toProcess, processedContents, i,
                    resourceId, inserted, writeLog, atStart, previous >>

\* previewChanges after detectChanges has returned: createChangesSummary,
\* console.log, return.
PreviewSummary_refresh ==
    /\ UNCHANGED besidePipeline
    /\ pc = "preview"
    /\ Len(changeResults) = Len(scrapedContents)
    /\ pc' = "previewed"
    /\ resources' = [ id \in DOMAIN resources |->
                        [ resources[id] EXCEPT !.lastScraped = now ] ]
    /\ UNCHANGED << embeddings, now, locals, i, resourceId, inserted, faults, history >>
PreviewSummary ==
    /\ UNCHANGED besidePipeline
    /\ pc = "preview"
    /\ Len(changeResults) = Len(scrapedContents)
    /\ pc' = "previewed"
    /\ UNCHANGED << store, now, locals, i, resourceId, inserted, faults, history >>

\* detectChanges has returned: steps 3 and 4 of populateDatabase, up to the
\* first store call.
PlanWrites ==
    /\ UNCHANGED besidePipeline
    /\ pc = "detect"
    /\ Len(changeResults) = Len(scrapedContents)
    /\ LET changes == getUrlsToProcess(changeResults)
           processed == processBatch(ContentToProcess(scrapedContents, changes))
       IN  /\ toProcess' = changes
           /\ IF Len(changes) = 0
              THEN /\ processedContents' = << >>
                   /\ pc' = IF Len(UnchangedResults(changeResults)) = 0
                            THEN "done" ELSE "refresh"
              ELSE /\ processedContents' = processed
                   /\ pc' = IF Len(processed) = 0 THEN "done" ELSE "write"
    /\ i' = 1
    /\ UNCHANGED << store, now, scrapedContents, changeResults, resourceId, inserted,
                    faults, history >>

\* One iteration of the loop of updateLastScrapedTimestamp; an error of the
\* update is caught and logged.
UpdateLastScrapedTimestamp ==
    /\ UNCHANGED besidePipeline
    /\ pc = "refresh"
    /\ LET unchangedResults == UnchangedResults(changeResults)
           result == unchangedResults[i]
       IN  /\ \/ /\ HasResourceId(result)
                 /\ resources' = TouchResource(result.resourceId)
                 /\ UNCHANGED faults
              \/ /\ HasResourceId(result)
                 /\ MayThrow
                 /\ faults' = faults + 1
                 /\ UNCHANGED resources
              \/ /\ ~HasResourceId(result)
                 /\ UNCHANGED << resources, faults >>
           /\ pc' = IF i + 1 > Len(unchangedResults) THEN "done" ELSE "refresh"
    /\ i' = i + 1
    /\ UNCHANGED << embeddings, now, locals, resourceId, inserted, history >>

\* ----------------------------------------------------- the write loop

\* The document the write loop is at, and the change record found for it.
\* Every processed document comes from a page that toProcess names, so find
\* always returns a record and the `continue` on a missing record is dead.
Current == processedContents[i]
ChangeFor(processedContent) == FindChange(toProcess, processedContent.sourceUrl)

\* The write loop taking the else branch for every document.
TakesUpdatePath_never(changeResult) == FALSE

\* changeResult.changeType === 'updated' && changeResult.resourceId
TakesUpdatePath(changeResult) ==
    changeResult.changeType = "updated" /\ HasResourceId(changeResult)

\* The write loop without its try/catch: an error of one document leaves the
\* loop and reaches the outer catch, which rethrows.
NextDocument_uncaught(path, id, outcome) ==
    /\ writeLog' = Append(writeLog,
                          [ path |-> path, resourceId |-> id, outcome |-> outcome ])
    /\ i' = i + 1
    /\ pc' = IF outcome # "written" THEN "failed"
             ELSE IF i + 1 > Len(processedContents) THEN "done" ELSE "write"
    /\ resourceId' = 0
    /\ inserted' = 0

\* The write of the current document has ended (it completed, or it threw
\* and the catch of the loop took over): the loop moves to the next one.
NextDocument(path, id, outcome) ==
    /\ writeLog' = Append(writeLog,
                          [ path |-> path, resourceId |-> id, outcome |-> outcome ])
    /\ i' = i + 1
    /\ pc' = IF i + 1 > Len(processedContents) THEN "done" ELSE "write"
    /\ resourceId' = 0
    /\ inserted' = 0

\* A store or embedding call of the current document throws.
WriteThrows(path, id, outcome) ==
    /\ MayThrow
    /\ faults' = faults + 1
    /\ NextDocument(path, id, outcome)
    /\ UNCHANGED << store, now, locals, lookupThrew, atStart, previous >>

\* handleUpdatedContent, first await: cleanupOldEmbeddings.
HandleUpdatedCleanup ==
    /\ UNCHANGED besidePipeline
    /\ pc = "write"
    /\ ChangeFor(Current) # << >>
    /\ LET changeResult == ChangeFor(Current)[1]
       IN  /\ TakesUpdatePath(changeResult)
           /\ \/ /\ embeddings' = cleanupOldEmbeddings(changeResult.resourceId)
                 /\ resourceId' = changeResult.resourceId
                 /\ pc' = "updated: update"
                 /\ UNCHANGED << resources, now, locals, i, inserted, faults, history >>
              \/ WriteThrows("updated", changeResult.resourceId, "cleanup threw")

\* handleUpdatedContent, second await: updateResource.
HandleUpdatedUpdate ==
    /\ UNCHANGED besidePipeline
    /\ pc = "updated: update"
    /\ LET changeResult == ChangeFor(Current)[1]
       IN  \/ /\ resources' = updateResource(resourceId, Current, changeResult.newHash)
              /\ IF Len(EmbeddingRows(resourceId, Current.chunks)) = 0
                 THEN NextDocument("updated", resourceId, "written")
                 ELSE /\ pc' = "updated: embed"
                      /\ UNCHANGED << i, resourceId, inserted, writeLog >>
              /\ UNCHANGED << embeddings, now, locals, faults, lookupThrew, atStart,
                              previous >>
           \/ WriteThrows("updated", resourceId, "update threw")

\* handleNewContent, first await: insert the resource.
HandleNewInsert ==
    /\ UNCHANGED besidePipeline
    /\ pc = "write"
    /\ ChangeFor(Current) # << >>
    /\ LET changeResult == ChangeFor(Current)[1]
           id == Len(resources) + 1
       IN  /\ ~TakesUpdatePath(changeResult)
           /\ \/ /\ resources' = InsertResource(Current, changeResult.newHash)
                 /\ IF Len(EmbeddingRows(id, Current.chunks)) = 0
                    THEN NextDocument("new", id, "written")
                    ELSE /\ pc' = "new: embed"
                         /\ resourceId' = id
                         /\ UNCHANGED << i, inserted, writeLog >>
                 /\ UNCHANGED << embeddings, now, locals, faults, lookupThrew, atStart,
                                 previous >>
              \/ WriteThrows("new", 0, "insert threw")

\* One embedding row of the current document: createEmbedding, then
\* db.insert(embeddings). Either call may throw.
EmbedNext(path) ==
    LET rows == EmbeddingRows(resourceId, Current.chunks)
    IN  \/ /\ embeddings' = Append(embeddings, rows[inserted + 1])
           /\ IF inserted + 1 = Len(rows)
              THEN NextDocument(path, resourceId, "written")
              ELSE /\ inserted' = inserted + 1
                   /\ UNCHANGED << pc, i, resourceId, writeLog >>
           /\ UNCHANGED << resources, now, locals, faults, lookupThrew, atStart,
                           previous >>
        \/ WriteThrows(path, resourceId, "embedding threw")
        \/ WriteThrows(path, resourceId, "chunk insert threw")

\* handleNewContent, the loop over the chunks.
HandleNewEmbed ==
    /\ UNCHANGED besidePipeline
    /\ pc = "new: embed"
    /\ EmbedNext("new")

\* handleUpdatedContent, the loop over the chunks.
HandleUpdatedEmbed ==
    /\ UNCHANGED besidePipeline
    /\ pc = "updated: embed"
    /\ EmbedNext("updated")

Next ==
    \/ StartRun
    \/ ScrapeThrows
    \/ StartPreview
    \/ DetectSingleChange
    \/ PreviewSummary
    \/ PlanWrites
    \/ UpdateLastScrapedTimestamp
    \/ HandleUpdatedCleanup
    \/ HandleUpdatedUpdate
    \/ HandleNewInsert
    \/ HandleNewEmbed
    \/ HandleUpdatedEmbed

Spec == Init /\ [][Next]_<< vars, besidePipeline >>

\* ------------------------------------------------------------ the scraper

\* scrapeCornellLawChapters, one step per await. A request (newPage, goto,
\* the extraction) either returns or throws; a timer always fires; close()
\* of a page or of the browser is the release itself and completes.

\* The status the existence probe accepts.
HttpOk == "200"
\* What page.goto of the probe can end with: a status, no response, or a throw.
ProbeOutcomes == { HttpOk, "404", "no response", "threw" }

\* validateUrl: response?.status() === 200, false from the catch.
StatusIsValid_any(outcome) == outcome # "threw"
StatusIsValid(outcome) == outcome = HttpOk

\* The URL the loop of scrapeAllSections is at.
CurrentUrl == allUrls[urlAt]

\* The history after one more request or delay.
Logged(op, outcome) ==
    Append(crawlLog, [ op |-> op, url |-> CurrentUrl, outcome |-> outcome ])

\* The catch of the loop of scrapeAllSections: log, then `continue`.
CatchAndContinue_break ==
    /\ crawlPc' = "closing"
    /\ UNCHANGED urlAt
CatchAndContinue ==
    /\ crawlPc' = "loop"
    /\ urlAt' = urlAt + 1

\* init(): chromium.launch, before the try of scrapeCornellLawChapters.
ScraperInit ==
    /\ crawlPc = "init"
    /\ \/ /\ browser' = "launched"
          /\ launches' = launches + 1
          /\ crawlPc' = "loop"
       \/ /\ crawlPc' = "threw"
          /\ UNCHANGED << browser, launches >>
    /\ UNCHANGED << urlAt, crawlResults, isValid, pageResult, openPages, crawlLog >>
    /\ UNCHANGED besideCrawler

\* scrapeSingleSection is entered for the next URL (this.browser is set, so
\* its own throw cannot happen); validateUrl opens the probe page, outside
\* its try.
ValidateUrlNewPage ==
    /\ crawlPc = "loop"
    /\ urlAt <= Len(allUrls)
    /\ \/ /\ openPages' = openPages + 1
          /\ crawlLog' = Logged("newPage", "opened")
          /\ crawlPc' = "probe: goto"
          /\ UNCHANGED urlAt
       \/ /\ crawlLog' = Logged("newPage", "threw")
          /\ CatchAndContinue
          /\ UNCHANGED openPages
    /\ isValid' = FALSE
    /\ pageResult' = << >>
    /\ UNCHANGED << browser, launches, crawlResults >>
    /\ UNCHANGED besideCrawler

\* validateUrl: page.goto(url, domcontentloaded) and the status test.
ValidateUrlGoto ==
    /\ crawlPc = "probe: goto"
    /\ \E outcome \in ProbeOutcomes :
          /\ crawlLog' = Logged("probe", outcome)
          /\ isValid' = StatusIsValid(outcome)
    /\ crawlPc' = "probe: close"
    /\ UNCHANGED << browser, launches, urlAt, crawlResults, pageResult, openPages >>
    /\ UNCHANGED besideCrawler

\* validateUrl: the finally closes the probe page; scrapeSingleSection
\* returns null when the probe failed.
ValidateUrlClose ==
    /\ crawlPc = "probe: close"
    /\ openPages' = openPages - 1
    /\ crawlPc' = IF isValid THEN "scrape: newPage" ELSE "delay"
    /\ UNCHANGED << browser, launches, urlAt, crawlResults, isValid, pageResult,
                    crawlLog >>
    /\ UNCHANGED besideCrawler

\* scrapeSingleSection opens the page of the full load, outside its try.
ScrapeNewPage ==
    /\ crawlPc = "scrape: newPage"
    /\ \/ /\ openPages' = openPages + 1
          /\ crawlLog' = Logged("newPage", "opened")
          /\ crawlPc' = "scrape: wait"
          /\ UNCHANGED urlAt
       \/ /\ crawlLog' = Logged("newPage", "threw")
          /\ CatchAndContinue
          /\ UNCHANGED openPages
    /\ UNCHANGED << browser, launches, crawlResults, isValid, pageResult >>
    /\ UNCHANGED besideCrawler

\* scrapeSingleSection: the one-second wait before the full load.
ScrapeWait ==
    /\ crawlPc = "scrape: wait"
    /\ crawlLog' = Logged("wait", "elapsed")
    /\ crawlPc' = "scrape: load"
    /\ UNCHANGED << browser, launches, urlAt, crawlResults, isValid, pageResult,
                    openPages >>
    /\ UNCHANGED besideCrawler

\* The normalised texts a crawl can extract: the page texts, and for each a
\* text that differs from it in one character.
CrawlTexts == PageTexts \cup { [ t EXCEPT !.len = t.len - 1 ] : t \in PageTexts }

\* scrapeSectionPage: page.goto, page.content and the extraction. A throw is
\* caught by scrapeSingleSection, which then returns null.
ScrapeSectionPage ==
    /\ crawlPc = "scrape: load"
    /\ \/ \E content \in CrawlTexts :
             /\ pageResult' = << ScrapedContent(CurrentUrl, content) >>
             /\ crawlLog' = Logged("load", "scraped")
       \/ /\ pageResult' = << >>
          /\ crawlLog' = Logged("load", "threw")
    /\ crawlPc' = "scrape: close"
    /\ UNCHANGED << browser, launches, urlAt, crawlResults, isValid, openPages >>
    /\ UNCHANGED besideCrawler

\* scrapeSingleSection closing the page at the end of the try, without a
\* finally.
ScrapePageClose_noFinally ==
    /\ crawlPc = "scrape: close"
    /\ openPages' = IF pageResult # << >> THEN openPages - 1 ELSE openPages
    /\ crawlResults' = crawlResults \o pageResult
    /\ crawlPc' = "delay"
    /\ UNCHANGED << browser, launches, urlAt, isValid, pageResult, crawlLog >>
    /\ UNCHANGED besideCrawler

\* scrapeSingleSection: the finally closes the page; back in the loop,
\* `if (result) results.push(result)`.
ScrapePageClose ==
    /\ crawlPc = "scrape: close"
    /\ openPages' = openPages - 1
    /\ crawlResults' = crawlResults \o pageResult
    /\ crawlPc' = "delay"
    /\ UNCHANGED << browser, launches, urlAt, isValid, pageResult, crawlLog >>
    /\ UNCHANGED besideCrawler

\* The end of one iteration of the try: the two-second delay, unless this
\* was the last URL.
RequestDelay ==
    /\ crawlPc = "delay"
    /\ crawlLog' = IF urlAt < Len(allUrls) THEN Logged("delay", "elapsed") ELSE crawlLog
    /\ urlAt' = urlAt + 1
    /\ crawlPc' = "loop"
    /\ UNCHANGED << browser, launches, crawlResults, isValid, pageResult, openPages >>
    /\ UNCHANGED besideCrawler

\* scrapeAllSections returns results.
ScrapeAllReturn ==
    /\ crawlPc = "loop"
    /\ urlAt > Len(allUrls)
    /\ crawlPc' = "closing"
    /\ UNCHANGED << browser, launches, urlAt, crawlResults, isValid, pageResult,
                    openPages, crawlLog >>
    /\ UNCHANGED besideCrawler

\* The finally of scrapeCornellLawChapters: scraper.close().
ScraperClose_leak ==
    /\ crawlPc = "closing"
    /\ crawlPc' = "returned"
    /\ UNCHANGED << browser, launches, urlAt, crawlResults, isValid, pageResult,
                    openPages, crawlLog >>
    /\ UNCHANGED besideCrawler
ScraperClose ==
    /\ crawlPc = "closing"
    /\ browser' = IF browser = "launched" THEN "closed" ELSE browser
    /\ crawlPc' = "returned"
    /\ UNCHANGED << launches, urlAt, crawlResults, isValid, pageResult, openPages,
                    crawlLog >>
    /\ UNCHANGED besideCrawler

CrawlNext ==
    \/ ScraperInit
    \/ ValidateUrlNewPage
    \/ ValidateUrlGoto
    \/ ValidateUrlClose
    \/ ScrapeNewPage
    \/ ScrapeWait
    \/ ScrapeSectionPage
    \/ ScrapePageClose
    \/ RequestDelay
    \/ ScrapeAllReturn
    \/ ScraperClose

CrawlSpec == Init /\ [][CrawlNext]_<< crawler, besideCrawler >>

\* ---------------------------------------------------------- the read path

\* The limit runAgent passes, and the default of findSimilarResources.
TopK == 5
DefaultLimit == 5
\* The limits findSimilarResources is called with directly.
Limits == { 1, 2, DefaultLimit }

\* Rows of the embeddings table at most, when the table is drawn.
MaxRows == 3

\* vecA . vecB, as the reduce of cosineSimilarity computes it.
RECURSIVE DotFrom(_, _, _)
DotFrom(vecA, vecB, n) ==
    IF n > Len(vecA) THEN 0 ELSE vecA[n] * vecB[n] + DotFrom(vecA, vecB, n + 1)
Dot(vecA, vecB) == DotFrom(vecA, vecB, 1)

\* cosineSimilarity: dotProduct / (magnitudeA * magnitudeB). The quotient is
\* not an integer; it is kept exactly as the pair (num, den) that stands for
\* sign(num) * sqrt(|num| / den), with num = +-dotProduct^2 and
\* den = |A|^2 |B|^2 > 0. Two results are equal, or ordered, as the numbers
\* they stand for are; the result stands for 1.0 iff num = den.
cosineSimilarity(vecA, vecB) ==
    LET dotProduct == Dot(vecA, vecB)
    IN  [ num |-> IF dotProduct < 0 THEN -(dotProduct * dotProduct)
                  ELSE dotProduct * dotProduct,
          den |-> Dot(vecA, vecA) * Dot(vecB, vecB) ]

\* x < y for two results of cosineSimilarity.
Below(x, y) == x.num * y.den < y.num * x.den

\* The comparator of the sort, (a, b) => b.similarity - a.similarity, by its
\* sign.
Compare_ascending(a, b) ==
    IF Below(b.similarity, a.similarity) THEN 1
    ELSE IF Below(a.similarity, b.similarity) THEN -1 ELSE 0
Compare(a, b) ==
    IF Below(a.similarity, b.similarity) THEN 1
    ELSE IF Below(b.similarity, a.similarity) THEN -1 ELSE 0

\* Array.prototype.sort is stable: an item goes behind every item already
\* placed that the comparator does not put after it.
RECURSIVE InsertSorted_unstable(_, _)
InsertSorted_unstable(sorted, item) ==
    IF sorted = << >> THEN << item >>
    ELSE IF Compare(Head(sorted), item) >= 0 THEN << item >> \o sorted
    ELSE << Head(sorted) >> \o InsertSorted_unstable(Tail(sorted), item)
RECURSIVE InsertSorted(_, _)
InsertSorted(sorted, item) ==
    IF sorted = << >> THEN << item >>
    ELSE IF Compare(Head(sorted), item) > 0 THEN << item >> \o sorted
    ELSE << Head(sorted) >> \o InsertSorted(Tail(sorted), item)

RECURSIVE SortFirst(_, _)
SortFirst(items, n) ==
    IF n = 0 THEN << >> ELSE InsertSorted(SortFirst(items, n - 1), items[n])

\* .sort((a, b) => b.similarity - a.similarity)
SortBySimilarity(items) == SortFirst(items, Len(items))

\* .slice(0, limit)
Slice(items, n) == SubSeq(items, 1, IF n < Len(items) THEN n ELSE Len(items))

\* The .map of findSimilarResources: each row with its similarity.
WithSimilarity(rows, query) ==
    [ n \in 1..Len(rows) |->
        [ resourceId |-> rows[n].resourceId,
          content    |-> rows[n].content,
          embedding  |-> rows[n].embedding,
          similarity |-> cosineSimilarity(query, rows[n].embedding) ] ]

\* similarEmbeddings
SimilarEmbeddings(rows, query, n) ==
    Slice(SortBySimilarity(WithSimilarity(rows, query)), n)

\* The catch of findSimilarResources returns { error: e.message }.
ErrorResult == [ kind |-> "error", items |-> << >> ]

\* handleUpdatedContent is between its delete and its last insert, and the
\* chunks stored for the document are neither the old set nor the new one.
Replacing ==
    /\ pc \in { "updated: update", "updated: embed" }
    /\ RowsOf(embeddings, resourceId) # RowsOf(atStart[2], resourceId)
    /\ RowsOf(embeddings, resourceId) # EmbeddingRows(resourceId, Current.chunks)

\* A call has ended, or none was made.
AgentEnded == { "idle", "answered", "agent threw", "returned" }

\* What a new call starts from.
CallStarts(who, n) ==
    /\ agentPc \in AgentEnded
    /\ caller' = who
    /\ limit' = n
    /\ agentPc' = "embed"
    /\ queryEmbedding' = << >>
    /\ allEmbeddings' = << >>
    /\ searchResults' = NoResults
    /\ generated' = << >>
    /\ embedThrew' = FALSE
    /\ torn' = FALSE

\* runAgent(userMessage) calls findSimilarResources(userMessage, 5).
RunAgent ==
    /\ CallStarts("runAgent", TopK)
    /\ UNCHANGED besideReader

\* findSimilarResources(query, limit) is called on its own.
FindSimilarResources ==
    /\ \E n \in Limits : CallStarts("direct", n)
    /\ UNCHANGED besideReader

\* findSimilarResources: embed the query. A throw lands in the catch, which
\* returns the error object.
EmbedQuery ==
    /\ agentPc = "embed"
    /\ \/ /\ \E v \in Vectors : queryEmbedding' = v
          /\ agentPc' = "select"
          /\ UNCHANGED << searchResults, embedThrew >>
       \/ /\ embedThrew' = TRUE
          /\ searchResults' = ErrorResult
          /\ agentPc' = "found"
          /\ UNCHANGED queryEmbedding
    /\ UNCHANGED << caller, limit, allEmbeddings, generated, torn >>
    /\ UNCHANGED besideReader

\* findSimilarResources: select every row, then map, sort, slice and
\* return. A throw of the select lands in the catch.
SelectAndRank ==
    /\ agentPc = "select"
    /\ \/ /\ allEmbeddings' = embeddings
          /\ searchResults' =
                [ kind  |-> "items",
                  items |-> SimilarEmbeddings(embeddings, queryEmbedding, limit) ]
          /\ torn' = Replacing
       \/ /\ searchResults' = ErrorResult
          /\ UNCHANGED << allEmbeddings, torn >>
    /\ agentPc' = "found"
    /\ UNCHANGED << caller, limit, queryEmbedding, generated, embedThrew >>
    /\ UNCHANGED besideReader

\* The contextText of runAgent: the contents of the results, or '' when
\* there is an error object or no result.
ContextText(found) ==
    IF found.kind = "items"
    THEN [ n \in 1..Len(found.items) |-> found.items[n].content ]
    ELSE << >>

\* runAgent after the search: build the prompt and call generateText. A
\* throw of generateText is rethrown as 'Failed to process request'.
GenerateText ==
    /\ agentPc = "found"
    /\ caller = "runAgent"
    /\ generated' = Append(generated, ContextText(searchResults))
    /\ \/ agentPc' = "answered"
       \/ agentPc' = "agent threw"
    /\ UNCHANGED << caller, limit, queryEmbedding, allEmbeddings, searchResults,
                    embedThrew, torn >>
    /\ UNCHANGED besideReader

\* findSimilarResources returns to a direct caller.
ReturnResults ==
    /\ agentPc = "found"
    /\ caller = "direct"
    /\ agentPc' = "returned"
    /\ UNCHANGED << caller, limit, queryEmbedding, allEmbeddings, searchResults,
                    generated, embedThrew, torn >>
    /\ UNCHANGED besideReader

ReaderNext ==
    \/ RunAgent
    \/ FindSimilarResources
    \/ EmbedQuery
    \/ SelectAndRank
    \/ GenerateText
    \/ ReturnResults

\* createResource: a resource row with the content alone, and its one
\* embeddings row (the content fits one window of chunkText).
NoteText(n) == [ body |-> "n", spaced |-> FALSE, len |-> n ]
NoteResource(n) ==
    [ sourceUrl   |-> 0,
      content     |-> NoteText(n),
      title       |-> TitleOf(0),
      contentHash |-> generateContentHash(NoteText(n)),
      lastScraped |-> 0 ]
NoteEmbedding(n, v) ==
    [ resourceId |-> n,
      content    |-> [ text |-> NoteText(n), window |-> 1 ],
      embedding  |-> v ]

\* A store that createResource has filled with up to MaxRows resources,
\* the embedding service having returned any vectors for them.
SearchInit ==
    /\ \E n \in 0..MaxRows : \E vs \in [ 1..n -> Vectors ] :
          /\ resources = [ j \in 1..n |-> NoteResource(j) ]
          /\ embeddings = [ j \in 1..n |-> NoteEmbedding(j, vs[j]) ]
    /\ atStart = << resources, embeddings >>
    /\ PipelineIdle
    /\ CrawlerInit
    /\ ReaderInit
    /\ ChunkerIdle
    /\ ToolsIdle

SearchSpec == SearchInit /\ [][ReaderNext]_<< reader, besideReader >>

\* ------------------------------------------- a search during a populate run

\* The page texts processBatch keeps.
LongTexts == { t \in PageTexts : t.len > MinContentLength }

\* The state a first populate run ends in when it scraped both URLs with
\* long texts and every write succeeded: the two Documents and their chunks
\* are stored, and the run's locals are as it left them.
ConcurrentInit ==
    /\ \E t1 \in LongTexts : \E t2 \in LongTexts :
          LET scraped == << ScrapedContent(allUrls[1], t1),
                            ScrapedContent(allUrls[2], t2) >>
              changes == [ n \in 1..2 |-> ResultNew(scraped[n]) ]
              processed == processBatch(scraped)
          IN  /\ scrapedContents = scraped
              /\ changeResults = changes
              /\ toProcess = getUrlsToProcess(changes)
              /\ processedContents = processed
              /\ resources =
                    [ n \in 1..2 |->
                        [ sourceUrl   |-> processed[n].sourceUrl,
                          content     |-> processed[n].content,
                          title       |-> processed[n].title,
                          contentHash |-> changes[n].newHash,
                          lastScraped |-> 1 ] ]
              /\ embeddings = EmbeddingRows(1, processed[1].chunks) \o
                              EmbeddingRows(2, processed[2].chunks)
    /\ writeLog = [ n \in 1..2 |->
                      [ path |-> "new", resourceId |-> n, outcome |-> "written" ] ]
    /\ lookupThrew = << FALSE, FALSE >>
    /\ now = 1
    /\ pc = "done"
    /\ i = 3
    /\ resourceId = 0
    /\ inserted = 0
    /\ faults = 0
    /\ atStart = << << >>, << >> >>
    /\ previous = NoRun
    /\ CrawlerInit
    /\ ReaderInit
    /\ ChunkerIdle
    /\ ToolsIdle

\* The next command, with calls of runAgent and findSimilarResources (the
\* web application) running beside it. Nothing in the write path or in the
\* read path takes a lock or opens a transaction, so their steps interleave
\* freely.
ConcurrentNext == Next \/ ReaderNext

ConcurrentSpec == ConcurrentInit /\ [][ConcurrentNext]_<< vars, crawler, reader >>

\* ------------------------------------------- the chunker, character by length

\* Bounds of the texts and of the calls that are followed.
MaxGroups == 3
MaxCalls == 2
Repeats == 100

\* Literals of chunkLegalText, splitIntoSentences and createSemanticChunks.
MinChunkLength == 100
MinFallbackContent == 50
MaxFallbackLength == 2000
MinSentenceLength == 20
maxChunkSize == 1200
MinChunkText == 10

\* The length of a marker "(n)" with a one-digit number.
MarkerLength == 3

\* The lengths of the runs of words a text is made of.
WordLens == { 600, 1250 }

\* A cleaned text is a sequence of groups separated by single spaces. A
\* group is one token repeated `times` times, again separated by single
\* spaces; a token is an optional marker "(n) ", then `len` characters of
\* words holding no marker and no sentence end, then an optional "."
\* The groups are: words of each length without "."; a sentence of 600
\* characters with "."; a numbered paragraph of 3 or of 600 characters; and
\* Repeats fragments of 19 characters with ".", numbered or not.
Groups ==
    { [ marker |-> FALSE, len |-> l, stop |-> FALSE, times |-> 1 ] : l \in WordLens }
    \cup { [ marker |-> FALSE, len |-> 600, stop |-> TRUE, times |-> 1 ] }
    \cup { [ marker |-> TRUE, len |-> l, stop |-> FALSE, times |-> 1 ] : l \in { 3, 600 } }
    \cup { [ marker |-> m, len |-> 19, stop |-> TRUE, times |-> Repeats ] : m \in BOOLEAN }

\* Up to MaxGroups groups in a row, at most one of them a run of fragments.
GroupedTexts ==
    { grouped \in UNION { [ 1..n -> Groups ] : n \in 0..MaxGroups } :
          Cardinality({ k \in DOMAIN grouped : grouped[k].times > 1 }) <= 1 }

\* The h1 titles, by length.
Titles == { [ name |-> "short", len |-> 20 ], [ name |-> "long", len |-> 95 ] }

\* The tokens of a text, in order.
RECURSIVE TokensFrom(_, _)
TokensFrom(content, k) ==
    IF k > Len(content) THEN << >>
    ELSE [ n \in 1..content[k].times |->
             [ marker |-> content[k].marker, len |-> content[k].len,
               stop |-> content[k].stop ] ]
         \o TokensFrom(content, k + 1)

Tokens(content) == TokensFrom(content, 1)

\* The texts cleanLegalText can hand to the chunker, as sequences of tokens.
CleanTexts == { Tokens(grouped) : grouped \in GroupedTexts }

\* The number of characters of one token.
TokenLength(t) ==
    (IF t.marker THEN MarkerLength + 1 ELSE 0) + t.len + (IF t.stop THEN 1 ELSE 0)

\* The characters of tokens lo..hi, summed by halves.
RECURSIVE SumLengths(_, _, _)
SumLengths(tokens, lo, hi) ==
    IF lo > hi THEN 0
    ELSE IF lo = hi THEN TokenLength(tokens[lo])
    ELSE LET mid == (lo + hi) \div 2
         IN  SumLengths(tokens, lo, mid) + SumLengths(tokens, mid + 1, hi)

\* string.length of tokens joined by single spaces (also of their trim()).
TextLength(tokens) ==
    IF tokens = << >> THEN 0 ELSE SumLengths(tokens, 1, Len(tokens)) + Len(tokens) - 1

\* The positions 1..Len(tokens), in order.
Positions(tokens) == [ k \in 1..Len(tokens) |-> k ]

\* content.split(/(?=\(\d+\))/): a cut before every marker that is not at
\* position 0; the empty string gives one empty section.
paragraphSections(tokens) ==
    IF tokens = << >> THEN << << >> >>
    ELSE LET starts == SelectSeq(Positions(tokens),
                                 LAMBDA k : k = 1 \/ tokens[k].marker)
         IN  [ j \in 1..Len(starts) |->
                 SubSeq(tokens, starts[j],
                        IF j = Len(starts) THEN Len(tokens) ELSE starts[j + 1] - 1) ]

\* The length of the text between the title and a chunk's body.
JointLength(joint) == IF joint = "\n\n" THEN 2 ELSE 3

\* Every section prefixed like the first.
SectionChunk_blankLine(sections, index, title) ==
    [ title  |-> title,
      joint  |-> "\n\n",
      parts  |-> << sections[index] >>,
      suffix |-> "",
      length |-> title.len + 2 + TextLength(sections[index]) ]

\* `${title}\n\n${section.trim()}` for index 0, `${title} - ${section.trim()}`
\* for the others.
SectionChunk(sections, index, title) ==
    LET joint == IF index = 1 THEN "\n\n" ELSE " - "
    IN  [ title  |-> title,
          joint  |-> joint,
          parts  |-> << sections[index] >>,
          suffix |-> "",
          length |-> title.len + JointLength(joint) + TextLength(sections[index]) ]

\* The forEach pushing the chunk of every section.
SectionChunks_keepAll(sections, title) ==
    [ index \in 1..Len(sections) |-> SectionChunk(sections, index, title) ]

\* The forEach over paragraphSections: a chunk for every section that is not
\* blank, pushed when it is longer than 100 characters.
SectionChunks(sections, title) ==
    SelectSeq([ index \in 1..Len(sections) |-> SectionChunk(sections, index, title) ],
              LAMBDA chunk : chunk.parts[1] # << >> /\ chunk.length > MinChunkLength)

\* split(/[.!?]+\s+/): a sentence end followed by a space is removed and
\* ends a sentence; the end of the text keeps its "."
Sentences(tokens) ==
    LET ends == SelectSeq(Positions(tokens),
                          LAMBDA k : k = Len(tokens) \/ tokens[k].stop)
    IN  [ j \in 1..Len(ends) |->
            LET raw == SubSeq(tokens, IF j = 1 THEN 1 ELSE ends[j - 1] + 1, ends[j])
            IN  IF ends[j] < Len(tokens)
                THEN [ raw EXCEPT ![Len(raw)].stop = FALSE ] ELSE raw ]

\* splitIntoSentences, for texts without the listed abbreviations.
splitIntoSentences(tokens) ==
    SelectSeq(Sentences(tokens), LAMBDA s : TextLength(s) > MinSentenceLength)

\* currentChunk.trim() in createSemanticChunks: the title, a blank line and
\* the sentences, each followed by ". ", without the last space.
SemanticChunk(title, current, currentLength) ==
    [ title  |-> title,
      joint  |-> "\n\n",
      parts  |-> current,
      suffix |-> ". ",
      length |-> currentLength - 1 ]

\* The loop of createSemanticChunks from sentence k on, and the final push.
RECURSIVE PackFrom(_, _, _, _, _)
PackFrom(sentences, k, title, current, currentLength) ==
    IF k > Len(sentences)
    THEN IF currentLength > title.len + MinChunkText
         THEN << SemanticChunk(title, current, currentLength) >> ELSE << >>
    ELSE LET added == TextLength(sentences[k]) + 2
         IN  IF /\ currentLength + added > maxChunkSize
                /\ currentLength > title.len + MinChunkText
             THEN << SemanticChunk(title, current, currentLength) >>
                  \o PackFrom(sentences, k + 1, title, << sentences[k] >>,
                              title.len + 2 + added)
             ELSE PackFrom(sentences, k + 1, title, Append(current, sentences[k]),
                           currentLength + added)

\* The characters of sentences k.. when each is followed by ". "
RECURSIVE PackedLength(_, _)
PackedLength(sentences, k) ==
    IF k > Len(sentences) THEN 0
    ELSE TextLength(sentences[k]) + 2 + PackedLength(sentences, k + 1)

\* createSemanticChunks never starting a new chunk.
createSemanticChunks_single(sentences, title) ==
    IF sentences = << >> THEN << >>
    ELSE << SemanticChunk(title, sentences, title.len + 2 + PackedLength(sentences, 1)) >>

createSemanticChunks(sentences, title) ==
    PackFrom(sentences, 1, title, << >>, title.len + 2)

\* The titleChunk pushed whole.
FallbackChunk_whole(tokens, title) ==
    [ title  |-> title,
      joint  |-> "\n\n",
      parts  |-> << tokens >>,
      suffix |-> "",
      length |-> title.len + 2 + TextLength(tokens) ]

\* titleChunk.substring(0, 2000)
FallbackChunk(tokens, title) ==
    LET full == title.len + 2 + TextLength(tokens)
    IN  [ title  |-> title,
          joint  |-> "\n\n",
          parts  |-> << tokens >>,
          suffix |-> "",
          length |-> IF full > MaxFallbackLength THEN MaxFallbackLength ELSE full ]

\* Whether the split found numbered paragraphs.
Structural(tokens) == Len(paragraphSections(tokens)) > 1

\* chunkLegalText before its last step: the chunks of the structural split
\* or of the semantic chunking.
StrategyChunks(tokens, title) ==
    IF Structural(tokens)
    THEN SectionChunks(paragraphSections(tokens), title)
    ELSE createSemanticChunks(splitIntoSentences(tokens), title)

\* chunkLegalText with a chunks array that outlives the call.
legalChunks_kept(content, title) ==
    LET tokens == content
        before == IF legalCalls = << >> THEN << >>
                  ELSE legalCalls[Len(legalCalls)].chunks
        chunks == before \o StrategyChunks(tokens, title)
    IN  IF chunks = << >> /\ TextLength(tokens) > MinFallbackContent
        THEN << FallbackChunk(tokens, title) >>
        ELSE chunks

\* chunkLegalText on the characters of a text: the chunks of the strategy,
\* or the truncated titleChunk when there are none and the content is
\* longer than 50 characters.
legalChunks(content, title) ==
    LET tokens == content
        chunks == StrategyChunks(tokens, title)
    IN  IF chunks = << >> /\ TextLength(tokens) > MinFallbackContent
        THEN << FallbackChunk(tokens, title) >>
        ELSE chunks

\* One cleaned text and one title, no call made yet; createResource has
\* stored all resources but one.
ChunkInit ==
    /\ resources = [ j \in 1..(MaxRows - 1) |-> NoteResource(j) ]
    /\ embeddings = [ j \in 1..(MaxRows - 1) |-> NoteEmbedding(j, << 1, 0 >>) ]
    /\ atStart = << resources, embeddings >>
    /\ PipelineIdle
    /\ CrawlerInit
    /\ ReaderInit
    /\ legalContent \in CleanTexts
    /\ legalTitle \in Titles
    /\ legalCalls = << >>
    /\ ToolsIdle

\* processLegalText calls chunkLegalText(cleanContent, title).
ChunkLegalText ==
    /\ Len(legalCalls) < MaxCalls
    /\ legalCalls' = Append(legalCalls,
                            [ chunks |-> legalChunks(legalContent, legalTitle),
                              stored |-> Len(resources) ])
    /\ UNCHANGED << legalContent, legalTitle, store, besideChunker >>

\* createResource returning 'Resource successfully created.': the resource
\* row and its embeddings row have been inserted.
CreateResource ==
    /\ Len(resources) < MaxRows
    /\ resources' = Append(resources, NoteResource(Len(resources) + 1))
    /\ embeddings' = Append(embeddings,
                            NoteEmbedding(Len(resources) + 1, << 1, 0 >>))
    /\ UNCHANGED << chunker, besideChunker >>

ChunkNext == ChunkLegalText \/ CreateResource

ChunkSpec == ChunkInit /\ [][ChunkNext]_<< store, chunker, besideChunker >>

\* --------------------------------------------------------------- chunkText

\* The longest text and the largest chunkSize a followed call is given.
MaxTextLength == 5
MaxChunkSize == 3

\* The characters of a text: white space and anything else.
Chars == { " ", "x" }

\* The texts of up to MaxTextLength characters.
Texts == UNION { [ 1..n -> Chars ] : n \in 0..MaxTextLength }

\* text.slice(from, to) for 0 <= from <= to <= text.length, positions from 0.
TextSlice(text, from, to) == [ k \in 1..(to - from) |-> text[from + k] ]

\* String.prototype.trim: drop the white space at both ends.
Trim(text) ==
    LET inked == { k \in 1..Len(text) : text[k] # " " }
    IN  IF inked = { } THEN << >>
        ELSE LET first == CHOOSE k \in inked : \A o \in inked : k <= o
                 last == CHOOSE k \in inked : \A o \in inked : k >= o
             IN  TextSlice(text, first - 1, last)

\* Math.min
Min(a, b) == IF a < b THEN a ELSE b

\* chunkText moving on without stepping back by the overlap.
NextStart_noOverlap(end, overlap) == end

\* start = end - chunkOverlap
NextStart(end, overlap) == end - overlap

\* chunkText is called with a text, a chunkSize and a smaller chunkOverlap.
CutInit ==
    /\ resources = << >>
    /\ embeddings = << >>
    /\ atStart = << << >>, << >> >>
    /\ PipelineIdle
    /\ CrawlerInit
    /\ ReaderInit
    /\ ChunkerIdle
    /\ BackfillIdle
    /\ SplitterIdle
    /\ cutText \in Texts
    /\ chunkSize \in 1..MaxChunkSize
    /\ chunkOverlap \in 0..(chunkSize - 1)
    /\ cutStart = 0
    /\ cutChunks = << >>
    /\ cutWindows = << >>
    /\ cutPc = "loop"

\* One pass of the while loop: slice, trim, push, then break at the end of
\* the text or step back by the overlap.
ChunkTextCut ==
    /\ UNCHANGED besideCutter
    /\ cutPc = "loop"
    /\ cutStart < Len(cutText)
    /\ LET end == Min(cutStart + chunkSize, Len(cutText))
           chunk == TextSlice(cutText, cutStart, end)
       IN  /\ cutChunks' = Append(cutChunks, Trim(chunk))
           /\ cutWindows' = Append(cutWindows, [ start |-> cutStart, end |-> end ])
           /\ IF end = Len(cutText)
              THEN cutPc' = "returned" /\ UNCHANGED cutStart
              ELSE cutStart' = NextStart(end, chunkOverlap) /\ UNCHANGED cutPc
    /\ UNCHANGED << cutText, chunkSize, chunkOverlap >>

\* The while condition is false: chunkText returns chunks.
ChunkTextReturn ==
    /\ UNCHANGED besideCutter
    /\ cutPc = "loop"
    /\ ~(cutStart < Len(cutText))
    /\ cutPc' = "returned"
    /\ UNCHANGED << cutText, chunkSize, chunkOverlap, cutStart, cutChunks, cutWindows >>

CutNext == ChunkTextCut \/ ChunkTextReturn

\* The call runs to its end: nothing else is scheduled inside chunkText.
CutSpec ==
    CutInit /\ [][CutNext]_<< cutter, besideCutter >> /\ WF_<< cutter, besideCutter >>(CutNext)

\* ------------------------------------------------------- create-embeddings

\* The most resources the store holds when the script starts.
MaxStored == 2

\* The contents of stored resources: the empty string, a note of 14 and one
\* of 60 characters stored by createResource, and the cleaned text of a
\* page stored by the populate pipeline.
StoredContents ==
    { NoteText(0), NoteText(14), NoteText(60) }
    \cup { cleanLegalText(t) : t \in { p \in PageTexts : p.body = "b" } }

\* A stored resource with one of these contents.
StoredResource(content) ==
    LET url == IF content.body = "n" THEN 0 ELSE allUrls[1]
    IN  [ sourceUrl   |-> url,
          content     |-> content,
          title       |-> TitleOf(url),
          contentHash |-> generateContentHash(content),
          lastScraped |-> 0 ]

\* The chunks processLegalText(scrapedContent) returns for a stored resource.
\* A note is one run of words without marker or sentence end under the
\* empty title (resource.title || ''), chunked character by character.
StoredChunks(resource) ==
    IF resource.content.body = "n"
    THEN LET words == IF resource.content.len = 0 THEN << >>
                      ELSE << [ marker |-> FALSE, len |-> resource.content.len,
                                stop |-> FALSE ] >>
             cut == legalChunks(words, [ name |-> "none", len |-> 0 ])
         IN  [ j \in 1..Len(cut) |->
                 [ title |-> resource.title, body |-> resource.content.body, part |-> j ] ]
    ELSE processLegalText([ url     |-> resource.sourceUrl,
                            title   |-> resource.title,
                            content |-> resource.content ]).chunks

\* An embeddings row stored earlier for a resource.
StoredRow(id, resource) ==
    RowsForChunk(id, [ title |-> resource.title, body |-> resource.content.body,
                       part |-> 1 ])[1]

\* The store holds up to MaxStored resources, each with or without an
\* embeddings row; the script has not been started.
BackfillInit ==
    /\ \E n \in 1..MaxStored :
       \E contents \in [ 1..n -> StoredContents ] :
       \E has \in [ 1..n -> BOOLEAN ] :
          /\ resources = [ id \in 1..n |-> StoredResource(contents[id]) ]
          /\ embeddings =
                SelectSeq([ id \in 1..n |-> StoredRow(id, resources[id]) ],
                          LAMBDA e : has[e.resourceId])
    /\ atStart = << << >>, << >> >>
    /\ PipelineIdle
    /\ CrawlerInit
    /\ ReaderInit
    /\ ChunkerIdle
    /\ ToolsIdle

\* resources LEFT JOIN embeddings WHERE embeddings.id IS NULL: the resources
\* without a row in embeddings, one result row each.
WithoutEmbeddings ==
    SelectSeq([ id \in 1..Len(resources) |-> id ],
              LAMBDA id : RowsOf(embeddings, id) = << >>)

\* !resource.content
NoContent(resource) == resource.content.len = 0

\* The loop moves to the next resource: continue, or the end of the body.
FillCaught(outcome) ==
    /\ fillLog' = Append(fillLog, [ id |-> resourcesWithoutEmbeddings[fillAt],
                                    outcome |-> outcome ])
    /\ fillAt' = fillAt + 1
    /\ fillInserted' = 0
    /\ UNCHANGED fillPc

\* The script starts: the select returns, and the script returns at once
\* when it found nothing.
SelectWithoutEmbeddings ==
    /\ UNCHANGED besideBackfill
    /\ fillPc = "idle"
    /\ resourcesWithoutEmbeddings' = WithoutEmbeddings
    /\ fillStart' = embeddings
    /\ fillAt' = 1
    /\ fillPc' = IF WithoutEmbeddings = << >> THEN "returned" ELSE "loop"
    /\ UNCHANGED << store, fillInserted, fillLog, fillFaults >>

\* The select throws: the outer catch logs and rethrows.
SelectThrows ==
    /\ UNCHANGED besideBackfill
    /\ fillPc = "idle"
    /\ fillFaults < MaxFaults
    /\ fillFaults' = fillFaults + 1
    /\ fillStart' = embeddings
    /\ fillPc' = "failed"
    /\ UNCHANGED << store, resourcesWithoutEmbeddings, fillAt, fillInserted, fillLog >>

\* The loop is over: the script returns.
FillReturn ==
    /\ UNCHANGED besideBackfill
    /\ fillPc = "loop"
    /\ fillAt > Len(resourcesWithoutEmbeddings)
    /\ fillPc' = "returned"
    /\ UNCHANGED << store, resourcesWithoutEmbeddings, fillAt, fillInserted, fillLog,
                    fillFaults, fillStart >>

\* A resource without content is skipped.
FillSkip ==
    /\ UNCHANGED besideBackfill
    /\ fillPc = "loop"
    /\ fillAt <= Len(resourcesWithoutEmbeddings)
    /\ NoContent(resources[resourcesWithoutEmbeddings[fillAt]])
    /\ FillCaught("skipped")
    /\ UNCHANGED << store, resourcesWithoutEmbeddings, fillFaults, fillStart >>

\* One step of the try block for the current resource: the next
\* createEmbedding and insert of createEmbeddingsForResource, the end of
\* the block once every chunk is stored, or a throw to the inner catch.
FillEmbed ==
    /\ UNCHANGED besideBackfill
    /\ fillPc = "loop"
    /\ fillAt <= Len(resourcesWithoutEmbeddings)
    /\ ~NoContent(resources[resourcesWithoutEmbeddings[fillAt]])
    /\ LET id == resourcesWithoutEmbeddings[fillAt]
           rows == EmbeddingRows(id, StoredChunks(resources[id]))
       IN  \/ /\ fillInserted < Len(rows)
              /\ embeddings' = Append(embeddings, rows[fillInserted + 1])
              /\ fillInserted' = fillInserted + 1
              /\ UNCHANGED << resources, fillAt, fillPc, fillLog, fillFaults >>
           \/ /\ fillInserted = Len(rows)
              /\ FillCaught("created")
              /\ UNCHANGED << store, fillFaults >>
           \/ /\ fillInserted < Len(rows)
              /\ fillFaults < MaxFaults
              /\ fillFaults' = fillFaults + 1
              /\ FillCaught("threw")
              /\ UNCHANGED store
    /\ UNCHANGED << resourcesWithoutEmbeddings, fillStart >>

BackfillNext ==
    \/ SelectWithoutEmbeddings
    \/ SelectThrows
    \/ FillReturn
    \/ FillSkip
    \/ FillEmbed

BackfillSpec == BackfillInit /\ [][BackfillNext]_<< store, backfill, besideBackfill >>

\* ------------------------------------------------------ splitIntoSentences

\* The most pieces a text given to splitIntoSentences is made of.
MaxPieces == 3

\* const legalAbbrevs, character by character.
legalAbbrevs ==
    << << "U", ".", "S", "." >>,
       << "v", "." >>,
       << "e", ".", "g", "." >>,
       << "i", ".", "e", "." >>,
       << "e", "t", "c", "." >>,
       << "I", "n", "c", "." >>,
       << "C", "o", "r", "p", "." >>,
       << "L", "L", "C" >> >>

\* The decimal digit of an index of legalAbbrevs (from 0).
Digits == << "0", "1", "2", "3", "4", "5", "6", "7" >>

\* `__ABBREV_${index}__`
Placeholder(index) ==
    << "_", "_", "A", "B", "B", "R", "E", "V", "_", Digits[index + 1], "_", "_" >>

\* [.!?] and \s of the split pattern, and the line terminators no "."
\* of a pattern matches.
Punct == { ".", "!", "?" }
Space == { " ", "\n" }
LineEnd == { "\n" }

\* The pieces a text is made of: a run of twenty-one letters, a space, a
\* sentence end, and "U.S.", "v." and "e.g," as they occur in running text.
Pieces ==
    { [ k \in 1..21 |-> "x" ],
      << " " >>,
      << ".", " " >>,
      << "U", ".", "S", "." >>,
      << "v", "." >>,
      << "e", ".", "g", "," >> }

\* The pieces written one after the other.
RECURSIVE Joined(_)
Joined(pieces) ==
    IF pieces = << >> THEN << >> ELSE Head(pieces) \o Joined(Tail(pieces))

\* The texts of up to MaxPieces pieces.
SplitTexts == { Joined(ps) : ps \in UNION { [ 1..n -> Pieces ] : n \in 0..MaxPieces } }

\* new RegExp(abbrev.replace('.', '\\.'), 'g'): replace with a string pattern
\* escapes the first "." only, so every later "." stands for any character.
AbbrevPattern(abbrev) ==
    LET dots == { k \in 1..Len(abbrev) : abbrev[k] = "." }
    IN  [ k \in 1..Len(abbrev) |->
            [ ch  |-> abbrev[k],
              any |-> abbrev[k] = "." /\ \E d \in dots : d < k ] ]

\* new RegExp(placeholder, 'g'): the placeholder holds no special character.
LiteralPattern(word) == [ k \in 1..Len(word) |-> [ ch |-> word[k], any |-> FALSE ] ]

\* The pattern matches the characters from position k on.
MatchesAt(marked, k, pattern) ==
    /\ k + Len(pattern) - 1 <= Len(marked)
    /\ \A j \in 1..Len(pattern) :
           IF pattern[j].any THEN marked[k + j - 1].ch \notin LineEnd
           ELSE marked[k + j - 1].ch = pattern[j].ch

\* The least and the greatest of a set of positions.
Least(positions) == CHOOSE a \in positions : \A b \in positions : a <= b
Greatest(positions) == CHOOSE a \in positions : \A b \in positions : a >= b

\* String.prototype.replace with a global pattern, from position k on: the
\* matches are taken from left to right and do not overlap.
RECURSIVE ReplaceFrom(_, _, _, _)
ReplaceFrom(marked, k, pattern, replacement) ==
    IF k > Len(marked) THEN << >>
    ELSE IF MatchesAt(marked, k, pattern)
    THEN LET matched == k..(k + Len(pattern) - 1)
         IN  [ j \in 1..Len(replacement) |->
                 [ ch |-> replacement[j],
                   lo |-> Least({ marked[m].lo : m \in matched }),
                   hi |-> Greatest({ marked[m].hi : m \in matched }) ] ]
             \o ReplaceFrom(marked, k + Len(pattern), pattern, replacement)
    ELSE << marked[k] >> \o ReplaceFrom(marked, k + 1, pattern, replacement)

\* The text with each character marked with its own position.
Marked(text) == [ k \in 1..Len(text) |-> [ ch |-> text[k], lo |-> k, hi |-> k ] ]

\* The characters of a marked text.
Unmarked(marked) == [ k \in 1..Len(marked) |-> marked[k].ch ]

\* legalAbbrevs.forEach from the given index on: each abbreviation's matches
\* are replaced by its placeholder.
RECURSIVE ProtectFrom(_, _)
ProtectFrom(marked, index) ==
    IF index >= Len(legalAbbrevs) THEN marked
    ELSE ProtectFrom(ReplaceFrom(marked, 1, AbbrevPattern(legalAbbrevs[index + 1]),
                                 Placeholder(index)),
                     index + 1)

\* Object.entries(placeholders).forEach from the given index on: each
\* placeholder is replaced by its abbreviation.
RECURSIVE RestoreFrom(_, _)
RestoreFrom(marked, index) ==
    IF index >= Len(legalAbbrevs) THEN marked
    ELSE RestoreFrom(ReplaceFrom(marked, 1, LiteralPattern(Placeholder(index)),
                                 legalAbbrevs[index + 1]),
                     index + 1)

\* Position k lies in a match of /[.!?]+\s+/: in a run of sentence ends that
\* is followed by white space, or in the white space that follows one.
InSeparator(marked, k) ==
    \/ /\ marked[k].ch \in Punct
       /\ \E m \in k..(Len(marked) - 1) :
              /\ \A j \in k..m : marked[j].ch \in Punct
              /\ marked[m + 1].ch \in Space
    \/ /\ marked[k].ch \in Space
       /\ \E m \in 2..k :
              /\ \A j \in m..k : marked[j].ch \in Space
              /\ marked[m - 1].ch \in Punct

\* split(/[.!?]+\s+/), leaving out the empty strings between two matches and
\* at the ends: the runs of characters outside every match.
SplitSegments(marked) ==
    LET kept == { k \in 1..Len(marked) : ~InSeparator(marked, k) }
        starts == SelectSeq([ k \in 1..Len(marked) |-> k ],
                            LAMBDA k : k \in kept /\ (k - 1) \notin kept)
    IN  [ n \in 1..Len(starts) |->
            SubSeq(marked, starts[n],
                   Greatest({ m \in starts[n]..Len(marked) :
                                 \A j \in starts[n]..m : j \in kept })) ]

\* String.prototype.trim on a marked text.
TrimMarked(marked) ==
    LET inked == { k \in 1..Len(marked) : marked[k].ch \notin Space }
    IN  IF inked = { } THEN << >> ELSE SubSeq(marked, Least(inked), Greatest(inked))

\* .map(restore and trim).filter(sentence => sentence.length > 20)
RestoredSentences(marked) ==
    LET segments == SplitSegments(marked)
        restored == [ n \in 1..Len(segments) |->
                        Unmarked(TrimMarked(RestoreFrom(segments[n], 0))) ]
    IN  SelectSeq(restored, LAMBDA sentence : Len(sentence) > MinSentenceLength)

\* splitIntoSentences is called with a text.
SplitInit ==
    /\ resources = << >>
    /\ embeddings = << >>
    /\ atStart = << << >>, << >> >>
    /\ PipelineIdle
    /\ CrawlerInit
    /\ ReaderInit
    /\ ChunkerIdle
    /\ CutterIdle
    /\ BackfillIdle
    /\ splitText \in SplitTexts
    /\ processedText = Marked(splitText)
    /\ splitSentences = << >>
    /\ splitPc = "protect"

\* The forEach over legalAbbrevs.
ProtectAbbreviations ==
    /\ UNCHANGED besideSplitter
    /\ splitPc = "protect"
    /\ processedText' = ProtectFrom(processedText, 0)
    /\ splitPc' = "split"
    /\ UNCHANGED << splitText, splitSentences >>

\* split, map, filter and return.
SplitAndRestore ==
    /\ UNCHANGED besideSplitter
    /\ splitPc = "split"
    /\ splitSentences' = RestoredSentences(processedText)
    /\ splitPc' = "returned"
    /\ UNCHANGED << splitText, processedText >>

SplitNext == ProtectAbbreviations \/ SplitAndRestore

SplitSpec == SplitInit /\ [][SplitNext]_<< splitter, besideSplitter >>

\* ------------------------------------------------------------- properties


\* The elements of a sequence.
Range(s) == { s[n] : n \in 1..Len(s) }

\* C1: while detectChanges runs, every record produced by a lookup that
\* returned classifies its page against the store: no row with the page's URL
\* gives 'new' without resourceId; otherwise the record carries the id and the
\* hash of a stored row with that URL, and it is 'unchanged' when that hash
\* equals the scraped hash and 'updated' when it differs.
C1_Classification ==
    pc = "detect" =>
        \A n \in 1..Len(changeResults) :
            ~lookupThrew[n] =>
                LET r == changeResults[n]
                    content == scrapedContents[n]
                IN  /\ r.url = content.url
                    /\ r.newHash = content.contentHash
                    /\ RowsWithUrl(content.url) = { } =>
                           /\ r.changeType = "new"
                           /\ DOMAIN r = { "url", "changeType", "newHash" }
                    /\ RowsWithUrl(content.url) # { } =>
                           /\ HasResourceId(r)
                           /\ r.resourceId \in RowsWithUrl(content.url)
                           /\ r.oldHash = resources[r.resourceId].contentHash
                           /\ r.oldHash = content.contentHash => r.changeType = "unchanged"
                           /\ r.oldHash # content.contentHash => r.changeType = "updated"

\* C1 witness: one detectChanges pass has classified one page 'unchanged' and
\* another 'updated', both by lookups that returned.
C1_Witness ==
    /\ pc = "detect"
    /\ Len(changeResults) = 2
    /\ ~lookupThrew[1] /\ ~lookupThrew[2]
    /\ changeResults[1].changeType = "unchanged"
    /\ changeResults[2].changeType = "updated"

\* C2: in handleUpdatedContent the resource is updated only once none of its
\* embeddings rows is left, and while new rows are being inserted the resource
\* already holds the new content, hash and timestamp and its rows are exactly
\* the new rows inserted so far.
C2_DeleteUpdateInsert ==
    /\ pc = "updated: update" =>
           /\ RowsOf(embeddings, resourceId) = << >>
           /\ resources[resourceId].contentHash = ChangeFor(Current)[1].oldHash
    /\ pc = "updated: embed" =>
           /\ resources[resourceId].contentHash = ChangeFor(Current)[1].newHash
           /\ resources[resourceId].content = Current.content
           /\ resources[resourceId].lastScraped = now
           /\ RowsOf(embeddings, resourceId) =
                  SubSeq(EmbeddingRows(resourceId, Current.chunks), 1, inserted)

\* C2 witness: an update has deleted old rows of the resource, updated it and
\* inserted a first new row.
C2_Witness ==
    /\ pc = "updated: embed"
    /\ inserted = 1
    /\ RowsOf(atStart[2], resourceId) # << >>

\* The embeddings rows the write path derives for a processed document.
NewRows(id, processedContent) == EmbeddingRows(id, processedContent.chunks)

\* C3 as claimed: once an 'updated' record has been processed, with or
\* without an error, every embeddings row of its resource is derived from the
\* new content.
C3_OnlyNewChunks ==
    \A n \in 1..Len(writeLog) :
        writeLog[n].path = "updated" =>
            Range(RowsOf(embeddings, writeLog[n].resourceId)) \subseteq
                Range(NewRows(writeLog[n].resourceId, processedContents[n]))

\* C3 as amended: once an 'updated' record has been processed, either
\* cleanupOldEmbeddings threw and the resource and its rows are what they were
\* when the run began, or the rows of the resource are the first rows derived
\* from the new content, all of them when the write succeeded; rows of the old
\* and of the new content never coexist.
C3_UntouchedOrNewChunks ==
    \A n \in 1..Len(writeLog) :
        writeLog[n].path = "updated" =>
            LET id == writeLog[n].resourceId
                rows == RowsOf(embeddings, id)
                new == NewRows(id, processedContents[n])
            IN  IF writeLog[n].outcome = "cleanup threw"
                THEN /\ rows = RowsOf(atStart[2], id)
                     /\ resources[id] = atStart[1][id]
                ELSE /\ Len(rows) <= Len(new)
                     /\ rows = SubSeq(new, 1, Len(rows))
                     /\ writeLog[n].outcome = "written" => rows = new

\* C3 witness: an update failed partway, after it had replaced the old rows
\* of the resource by the first new row.
C3_Witness ==
    \E n \in 1..Len(writeLog) :
        /\ writeLog[n].path = "updated"
        /\ writeLog[n].outcome = "embedding threw"
        /\ RowsOf(atStart[2], writeLog[n].resourceId) # << >>
        /\ Len(RowsOf(embeddings, writeLog[n].resourceId)) = 1

\* C4 as claimed: when a populate run has ended, the embeddings rows of every
\* resource are exactly the rows derived from its stored content and title.
C4_ChunksMatchContent ==
    pc = "done" =>
        \A id \in DOMAIN resources :
            RowsOf(embeddings, id) =
                EmbeddingRows(id, chunkLegalText(resources[id].content, resources[id].title))

\* C5 as claimed, for runs in which no call has thrown: when a populate run
\* has ended, every resource classified 'unchanged' in it carries the
\* timestamp of that run.
C5_UnchangedRefreshed ==
    (pc = "done" /\ faults = 0) =>
        \A n \in 1..Len(changeResults) :
            changeResults[n].changeType = "unchanged" =>
                resources[changeResults[n].resourceId].lastScraped = now

\* A resources table with its lastScraped timestamps blanked.
SansTimestamps(table) ==
    [ id \in DOMAIN table |-> [ table[id] EXCEPT !.lastScraped = 0 ] ]

\* The run scraped the pages of the last completed run, all of whose writes
\* had succeeded.
SamePagesAgain ==
    /\ previous.completed
    /\ previous.written
    /\ previous.scraped = scrapedContents

\* C6 as claimed: a run that scrapes the same pages as the last completed run
\* ends with the store as it found it, timestamps aside.
C6_Idempotent ==
    (pc = "done" /\ SamePagesAgain) =>
        /\ SansTimestamps(resources) = SansTimestamps(atStart[1])
        /\ embeddings = atStart[2]

\* C7 as claimed: no two resources have the same sourceUrl.
C7_OneDocumentPerUrl ==
    \A a, b \in DOMAIN resources :
        resources[a].sourceUrl = resources[b].sourceUrl => a = b

\* C8: a lookup that threw yields exactly the record { url, 'new', newHash }
\* of its page, without oldHash or resourceId, and detectChanges still returns
\* a record for every input.
C8_FailOpen ==
    /\ Len(lookupThrew) = Len(changeResults)
    /\ \A n \in 1..Len(changeResults) :
           lookupThrew[n] =>
               changeResults[n] = [ url        |-> scrapedContents[n].url,
                                    changeType |-> "new",
                                    newHash    |-> scrapedContents[n].contentHash ]
    /\ (\E n \in 1..Len(lookupThrew) : lookupThrew[n]) =>
           /\ pc # "failed"
           /\ pc \notin { "detect", "preview" } =>
                 Len(changeResults) = Len(scrapedContents)

\* C8 witness: the lookup for the first of two pages threw although a resource
\* with its URL is stored, and detectChanges went on to the second page.
C8_Witness ==
    /\ pc = "write"
    /\ i = 1
    /\ Len(changeResults) = 2
    /\ lookupThrew[1]
    /\ RowsWithUrl(changeResults[1].url) # { }

\* C9: detectChanges produces one record per scraped page, the n-th from the
\* n-th page, with that page's url and contentHash, and has produced all of
\* them when it returns.
C9_OneRecordPerInput ==
    /\ Len(changeResults) <= Len(scrapedContents)
    /\ \A n \in 1..Len(changeResults) :
           /\ changeResults[n].url = scrapedContents[n].url
           /\ changeResults[n].newHash = scrapedContents[n].contentHash
    /\ pc \notin { "idle", "detect", "preview", "failed" } =>
          Len(changeResults) = Len(scrapedContents)

\* C9 witness: detectChanges has returned two records, one of them for a page
\* whose resource is stored with another hash.
C9_Witness ==
    /\ pc = "write"
    /\ Len(changeResults) = 2
    /\ changeResults[1].changeType = "new"
    /\ changeResults[2].changeType = "updated"

\* The positions of populateDatabase inside its write loop.
InWriteLoop == pc \in { "write", "updated: update", "updated: embed", "new: embed" }

\* C10: an error in the write of one document ends that document only: the
\* loop has handled every document before the current one, a run that reached
\* the loop ends with every document handled, and populateDatabase throws
\* only before the loop.
C10_WriteErrorsIsolated ==
    /\ InWriteLoop => Len(writeLog) = i - 1 /\ i <= Len(processedContents)
    /\ pc = "done" => Len(writeLog) = Len(processedContents)
    /\ pc = "failed" => writeLog = << >>

\* C10 witness: the write of the first document threw and the second
\* document was written after it.
C10_Witness ==
    /\ pc = "done"
    /\ Len(writeLog) = 2
    /\ writeLog[1].outcome # "written"
    /\ writeLog[2].outcome = "written"

\* --------------------------------------------------- properties of a crawl

\* The logged events of one kind for one URL.
Events(op, url) == SelectSeq(crawlLog, LAMBDA e : e.op = op /\ e.url = url)
\* The crawl has made a request for the URL.
Attempted(url) == \E n \in 1..Len(crawlLog) : crawlLog[n].url = url
\* The full load of the URL returned a page.
ScrapedOk(url) ==
    \E n \in 1..Len(Events("load", url)) : Events("load", url)[n].outcome = "scraped"
\* A probe, a navigation or an extraction for the URL failed.
Failed(url) ==
    \E n \in 1..Len(crawlLog) :
        /\ crawlLog[n].url = url
        /\ \/ crawlLog[n].outcome = "threw"
           \/ crawlLog[n].op = "probe" /\ crawlLog[n].outcome # HttpOk
\* The entries of the results array for one URL.
ResultsFor(url) == SelectSeq(crawlResults, LAMBDA r : r.url = url)
\* scrapeAllSections has returned.
CrawlReturned == crawlPc \in { "closing", "returned" }

\* C11: a URL whose probe, navigation or extraction failed has no entry in
\* the results; and when scrapeAllSections returns, every URL of the list
\* has been tried and the results hold exactly one entry for each URL whose
\* scrape succeeded, in the order of the list.
C11_FailuresIsolated ==
    /\ \A n \in 1..Len(allUrls) :
          Failed(allUrls[n]) => Len(ResultsFor(allUrls[n])) = 0
    /\ CrawlReturned =>
          LET scraped == SelectSeq(allUrls, LAMBDA u : ScrapedOk(u))
          IN  /\ \A n \in 1..Len(allUrls) : Attempted(allUrls[n])
              /\ Len(crawlResults) = Len(scraped)
              /\ \A n \in 1..Len(scraped) : crawlResults[n].url = scraped[n]

\* C11 witness: the crawl has returned, the first URL failed with a throw
\* and the second URL, tried after it, is the only entry of the results.
C11_Witness ==
    /\ crawlPc = "returned"
    /\ \E n \in 1..Len(crawlLog) :
          crawlLog[n].url = allUrls[1] /\ crawlLog[n].outcome = "threw"
    /\ Len(crawlResults) = 1
    /\ crawlResults[1].url = allUrls[2]

\* C12: every full content load of a URL comes after an existence probe of
\* the same URL that returned 200; and after a probe that returned another
\* status, no response, or threw, no full load of that URL is issued and
\* the URL has no result.
C12_ProbeBeforeLoad ==
    \A n \in 1..Len(crawlLog) :
        /\ crawlLog[n].op = "load" =>
              \E m \in 1..(n - 1) :
                  /\ crawlLog[m].op = "probe"
                  /\ crawlLog[m].url = crawlLog[n].url
                  /\ crawlLog[m].outcome = HttpOk
        /\ (crawlLog[n].op = "probe" /\ crawlLog[n].outcome # HttpOk) =>
              /\ Len(Events("load", crawlLog[n].url)) = 0
              /\ Len(ResultsFor(crawlLog[n].url)) = 0
              /\ (urlAt <= Len(allUrls) /\ CurrentUrl = crawlLog[n].url) =>
                    pageResult = << >>

\* C12 witness: the crawl has returned; the probe of the first URL returned
\* 404, and the second URL was probed and then loaded.
C12_Witness ==
    /\ crawlPc = "returned"
    /\ Len(Events("probe", allUrls[1])) = 1
    /\ Events("probe", allUrls[1])[1].outcome = "404"
    /\ Len(Events("load", allUrls[2])) = 1

\* C13: chromium.launch returns at most once in a crawl; when
\* scrapeCornellLawChapters has returned or thrown, no launched browser is
\* left open; and a crawl that returns has launched one browser and closed it.
C13_BrowserScoped ==
    /\ launches <= 1
    /\ browser # "null" => launches = 1
    /\ crawlPc \in { "returned", "threw" } => browser # "launched"
    /\ crawlPc = "returned" => browser = "closed"

\* C13 witness: the crawl has returned with the browser closed, after a
\* request of the scrape threw.
C13_Witness ==
    /\ crawlPc = "returned"
    /\ browser = "closed"
    /\ launches = 1
    /\ \E n \in 1..Len(crawlLog) : crawlLog[n].outcome = "threw"

\* ------------------------------------------------- properties of a preview

\* C14: while previewChanges runs and after it has returned, the two
\* tables (Documents with their timestamps, and chunks) are what they were
\* when it was called, whatever was scraped and detected.
C14_PreviewReadOnly ==
    pc \in { "preview", "previewed" } => store = atStart

\* C14 witness: a preview over a populated store has returned after it
\* detected an updated page and an unchanged page.
C14_Witness ==
    /\ pc = "previewed"
    /\ \E n \in 1..Len(changeResults) : changeResults[n].changeType = "updated"
    /\ \E n \in 1..Len(changeResults) : changeResults[n].changeType = "unchanged"

\* ------------------------------------------------ properties of the read path

\* C15 as claimed: no select of findSimilarResources reads the chunks of a
\* document while handleUpdatedContent is replacing them and they are
\* neither the complete old set nor the complete new set.
C15_NoIntermediateRead == ~torn

\* Two results of cosineSimilarity are the same number.
SameScore(x, y) == ~Below(x, y) /\ ~Below(y, x)
\* The score of the n-th row the select returned.
ScoreOf(n) == cosineSimilarity(queryEmbedding, allEmbeddings[n].embedding)

\* C16: when findSimilarResources(query, k) returns items over n stored
\* rows, it returns min(k, n) of them; each item is a distinct stored row
\* with its cosine score; scores do not increase along the list; items with
\* the same score keep their storage order; and no row left out scores
\* higher than a returned item.
C16_TopKStable ==
    searchResults.kind = "items" =>
        LET items == searchResults.items
            n == Len(allEmbeddings)
        IN  /\ Len(items) = IF limit < n THEN limit ELSE n
            /\ \E at \in [ 1..Len(items) -> 1..n ] :
                  /\ \A j \in 1..Len(items) :
                        /\ items[j].resourceId = allEmbeddings[at[j]].resourceId
                        /\ items[j].content = allEmbeddings[at[j]].content
                        /\ items[j].embedding = allEmbeddings[at[j]].embedding
                        /\ items[j].similarity = ScoreOf(at[j])
                  /\ \A j, k \in 1..Len(items) :
                        j < k =>
                           /\ at[j] # at[k]
                           /\ ~Below(items[j].similarity, items[k].similarity)
                           /\ SameScore(items[j].similarity, items[k].similarity)
                                 => at[j] < at[k]
                  /\ \A m \in 1..n :
                        (\A j \in 1..Len(items) : at[j] # m) =>
                           \A j \in 1..Len(items) :
                              ~Below(items[j].similarity, ScoreOf(m))

\* C16 witness: a call with limit 2 over three stored rows has returned two
\* items of the same score, the first stored row not among them.
C16_Witness ==
    /\ agentPc = "returned"
    /\ searchResults.kind = "items"
    /\ limit = 2
    /\ Len(allEmbeddings) = 3
    /\ Len(searchResults.items) = 2
    /\ SameScore(searchResults.items[1].similarity, searchResults.items[2].similarity)
    /\ searchResults.items[1].resourceId = 2
    /\ searchResults.items[2].resourceId = 3

\* The embedding vectors of a list of rows or items.
VectorsOf(rows) == [ n \in 1..Len(rows) |-> rows[n].embedding ]

\* C17: with the stored vectors [1,0], [0,1], [1,1] and the query [1,0], the
\* items come in the order [1,0], [1,1], [0,1] (as many of them as the limit
\* allows) and the first has score 1.0.
C17_RankingExample ==
    ( /\ searchResults.kind = "items"
      /\ VectorsOf(allEmbeddings) = << << 1, 0 >>, << 0, 1 >>, << 1, 1 >> >>
      /\ queryEmbedding = << 1, 0 >> ) =>
        /\ VectorsOf(searchResults.items) =
              Slice(<< << 1, 0 >>, << 1, 1 >>, << 0, 1 >> >>, limit)
        /\ searchResults.items[1].similarity.num = searchResults.items[1].similarity.den

\* C17 witness: runAgent's search over exactly these vectors has returned
\* its three items.
C17_Witness ==
    /\ caller = "runAgent"
    /\ searchResults.kind = "items"
    /\ VectorsOf(allEmbeddings) = << << 1, 0 >>, << 0, 1 >>, << 1, 1 >> >>
    /\ queryEmbedding = << 1, 0 >>
    /\ Len(searchResults.items) = 3

\* C18 as claimed: when embedding the query threw, generateText is not
\* called and the call does not end with an answer.
C18_EmbedFailureIsHardError ==
    embedThrew => (Len(generated) = 0 /\ agentPc # "answered")

\* ------------------------------------------- properties of the write path

\* C19 as claimed: a new document whose write succeeded has exactly one
\* embeddings row per chunk of chunkLegalText, in order, each with the id of
\* the new document and with the whole chunk as its text.
C19_OneRecordPerChunk ==
    \A n \in 1..Len(writeLog) :
        (writeLog[n].path = "new" /\ writeLog[n].outcome = "written") =>
            LET id == writeLog[n].resourceId
                chunks == processedContents[n].chunks
                rows == RowsOf(embeddings, id)
            IN  /\ Len(rows) = Len(chunks)
                /\ \A j \in 1..Len(rows) :
                      /\ rows[j].content.text = chunks[j]
                      /\ NumWindows(chunks[j]) = 1

\* No call threw in the current run.
NoErrorInRun ==
    /\ \A n \in 1..Len(lookupThrew) : ~lookupThrew[n]
    /\ \A n \in 1..Len(writeLog) : writeLog[n].outcome = "written"

\* The Document the write path stores for a scraped page in the current run.
DocumentFor(page) ==
    [ sourceUrl   |-> page.url,
      content     |-> cleanLegalText(page.content),
      title       |-> page.title,
      contentHash |-> page.contentHash,
      lastScraped |-> now ]

\* A Document with these values was created in the current run.
Created(doc) ==
    \E id \in DOMAIN resources : id > Len(atStart[1]) /\ resources[id] = doc

\* No Document has been deleted in the current run.
NoDocumentDeleted ==
    /\ Len(resources) >= Len(atStart[1])
    /\ \A id \in 1..Len(atStart[1]) : resources[id].sourceUrl = atStart[1][id].sourceUrl

\* C20 as claimed: when a populate run in which no call threw has ended,
\* every page classified 'new' has a Document created in this run, and the
\* Document of every page classified 'updated' carries the page's (cleaned)
\* content, its hash and the time of the run; no Document is ever deleted.
C20_NewAndUpdatedWritten ==
    /\ NoDocumentDeleted
    /\ (pc = "done" /\ NoErrorInRun) =>
          \A n \in 1..Len(changeResults) :
              /\ changeResults[n].changeType = "new" =>
                    Created(DocumentFor(scrapedContents[n]))
              /\ changeResults[n].changeType = "updated" =>
                    resources[changeResults[n].resourceId] =
                        DocumentFor(scrapedContents[n])

\* processBatch keeps the page.
Kept(page) == page.content.len > MinContentLength

\* C20 amended: the same for the pages processBatch keeps (content longer
\* than 50 characters); a shorter page classified 'new' creates no Document
\* and a shorter page classified 'updated' leaves its Document as it was.
C20_KeptPagesWritten ==
    /\ NoDocumentDeleted
    /\ (pc = "done" /\ NoErrorInRun) =>
          \A n \in 1..Len(changeResults) :
              LET page == scrapedContents[n]
                  change == changeResults[n]
              IN  /\ (change.changeType = "new" /\ Kept(page)) =>
                        Created(DocumentFor(page))
                  /\ (change.changeType = "updated" /\ Kept(page)) =>
                        resources[change.resourceId] = DocumentFor(page)
                  /\ (change.changeType = "new" /\ ~Kept(page)) =>
                        \A id \in DOMAIN resources :
                            id > Len(atStart[1]) => resources[id].sourceUrl # page.url
                  /\ (change.changeType = "updated" /\ ~Kept(page)) =>
                        resources[change.resourceId] = atStart[1][change.resourceId]

\* C20 witness: a run without errors has ended in which one kept page was
\* new and another kept page was updated.
C20_Witness ==
    /\ pc = "done"
    /\ NoErrorInRun
    /\ \E n \in 1..Len(changeResults) :
          changeResults[n].changeType = "new" /\ Kept(scrapedContents[n])
    /\ \E n \in 1..Len(changeResults) :
          changeResults[n].changeType = "updated" /\ Kept(scrapedContents[n])

\* C21 as claimed: the contentHash of every stored Document is the digest of
\* the content stored in the same row.
C21_HashOfStoredContent ==
    \A id \in DOMAIN resources :
        resources[id].contentHash = generateContentHash(resources[id].content)

\* main of the monitor script: process.exit(0) when the command returned,
\* process.exit(1) when it threw.
ExitCode == IF pc = "failed" THEN 1 ELSE 0

\* Every call on the store in the current run threw, and there was one.
StoreDown ==
    /\ Len(lookupThrew) > 0
    /\ \A n \in 1..Len(lookupThrew) : lookupThrew[n]
    /\ \A n \in 1..Len(writeLog) :
          writeLog[n].outcome \in { "cleanup threw", "update threw", "insert threw" }

\* Every call on the embedding service in the current run threw, and there
\* was one.
EmbeddingDown ==
    /\ Len(writeLog) > 0
    /\ \A n \in 1..Len(writeLog) :
          /\ writeLog[n].outcome = "embedding threw"
          /\ RowsOf(embeddings, writeLog[n].resourceId) = << >>

\* C22 as claimed: a populate run during which the store, or the embedding
\* service, failed on every call ends with a non-zero exit code; a run in
\* which no call threw ends with exit code 0.
C22_UnavailabilityFailsRun ==
    /\ (pc \in { "done", "failed" } /\ (StoreDown \/ EmbeddingDown)) => ExitCode # 0
    /\ (pc = "done" /\ NoErrorInRun) => ExitCode = 0

\* C23: for every page the current run classified 'unchanged', the chunks
\* stored for its Document and the Document's content, title and
\* contentHash are what they were when the run began, and the write loop
\* (with its embedding calls) neither handles the page nor works on the
\* Document.
C23_UnchangedUntouched ==
    \A n \in 1..Len(changeResults) :
        changeResults[n].changeType = "unchanged" =>
            LET id == changeResults[n].resourceId
            IN  /\ RowsOf(embeddings, id) = RowsOf(atStart[2], id)
                /\ resources[id].content = atStart[1][id].content
                /\ resources[id].title = atStart[1][id].title
                /\ resources[id].contentHash = atStart[1][id].contentHash
                /\ \A m \in 1..Len(processedContents) :
                      processedContents[m].sourceUrl # changeResults[n].url
                /\ \A m \in 1..Len(writeLog) : writeLog[m].resourceId # id
                /\ resourceId # id

\* C23 witness: a run has ended that found one page unchanged and wrote an
\* update for another.
C23_Witness ==
    /\ pc = "done"
    /\ \E n \in 1..Len(changeResults) : changeResults[n].changeType = "unchanged"
    /\ \E m \in 1..Len(writeLog) :
          writeLog[m].path = "updated" /\ writeLog[m].outcome = "written"

\* C29: a change record of type 'new' carries no resourceId; a record of
\* type 'updated' or 'unchanged' carries one, and it is the id of a stored
\* Document whose sourceUrl is the record's url.
C29_ResourceIdOnlyForStored ==
    \A n \in 1..Len(changeResults) :
        LET r == changeResults[n]
        IN  /\ r.changeType = "new" => ~HasResourceId(r)
            /\ r.changeType \in { "updated", "unchanged" } => HasResourceId(r)
            /\ HasResourceId(r) =>
                  /\ r.resourceId \in DOMAIN resources
                  /\ resources[r.resourceId].sourceUrl = r.url

\* C29 witness: one detection pass produced a record with a resourceId and a
\* 'new' record for a page whose lookup threw although a Document with its
\* url is stored.
C29_Witness ==
    /\ \E n \in 1..Len(changeResults) : HasResourceId(changeResults[n])
    /\ \E n \in 1..Len(changeResults) :
          /\ changeResults[n].changeType = "new"
          /\ lookupThrew[n]
          /\ RowsWithUrl(changeResults[n].url) # {}

StrategyYield == StrategyChunks(legalContent, legalTitle)

\* The length of title + blank line + content.
TitleChunkLength == legalTitle.len + 2 + TextLength(legalContent)

\* C26: when neither strategy yields a chunk and the content is longer than
\* 50 characters, a call returns exactly one chunk, which is the title, a
\* blank line and the content, cut at 2000 characters; and every call on a
\* content longer than 50 characters returns at least one chunk.
C26_FailSafe ==
    (legalCalls # << >> /\ TextLength(legalContent) > MinFallbackContent) =>
        /\ \A n \in 1..Len(legalCalls) : Len(legalCalls[n].chunks) >= 1
        /\ StrategyYield = << >> =>
              \A n \in 1..Len(legalCalls) :
                  /\ Len(legalCalls[n].chunks) = 1
                  /\ legalCalls[n].chunks[1].title = legalTitle
                  /\ legalCalls[n].chunks[1].joint = "\n\n"
                  /\ legalCalls[n].chunks[1].parts = << legalContent >>
                  /\ legalCalls[n].chunks[1].suffix = ""
                  /\ legalCalls[n].chunks[1].length <= MaxFallbackLength
                  /\ legalCalls[n].chunks[1].length \in { TitleChunkLength, MaxFallbackLength }

\* C26 witness: a call on a content of more than 2000 characters for which
\* neither strategy yields a chunk has returned.
C26_Witness ==
    /\ Len(legalCalls) > 0
    /\ StrategyYield = << >>
    /\ TextLength(legalContent) > MaxFallbackLength

FooBar ==
    << [ marker |-> TRUE, len |-> 3, stop |-> FALSE ],
       [ marker |-> TRUE, len |-> 3, stop |-> FALSE ] >>

\* The chunk made of a title, the text joining it to the body, and tokens
\* lo..hi of the content of the calls.
Prefixed(joint, lo, hi) ==
    [ title  |-> legalTitle,
      joint  |-> joint,
      parts  |-> << SubSeq(legalContent, lo, hi) >>,
      suffix |-> "",
      length |-> legalTitle.len + JointLength(joint)
                     + TextLength(SubSeq(legalContent, lo, hi)) ]

SegmentEnd(lo) ==
    CHOOSE hi \in lo..Len(legalContent) :
        /\ hi = Len(legalContent) \/ legalContent[hi + 1].marker
        /\ \A j \in (lo + 1)..hi : ~legalContent[j].marker

\* The segment that starts at token lo, prefixed: with the title and a blank
\* line when it is the first of the content, with the title and " - " when
\* it is a later one.
SegmentChunk(lo) == Prefixed(IF lo = 1 THEN "\n\n" ELSE " - ", lo, SegmentEnd(lo))

\* The starts of the segments that are kept, in the order of the content: the
\* start of the content and every marker, where the prefixed segment is
\* longer than 100 characters.
KeptStarts ==
    SelectSeq(Positions(legalContent),
              LAMBDA lo : /\ lo = 1 \/ legalContent[lo].marker
                          /\ SegmentChunk(lo).length > MinChunkLength)

\* The content of the calls has a marker away from position 0.
StructuralMode == \E k \in 2..Len(legalContent) : legalContent[k].marker

NoMarker == \A k \in 1..Len(legalContent) : ~legalContent[k].marker

\* The length of the longest of some sentences, 0 when there is none.
Longest(sentences) ==
    LET lengths == { TextLength(sentences[k]) : k \in 1..Len(sentences) } \cup { 0 }
    IN  CHOOSE m \in lengths : \A x \in lengths : x <= m

\* C25 as claimed: a call on a content without marker that is longer than
\* 1200 characters returns at least two chunks, none of them longer than
\* 1200 characters plus the length of the longest sentence of the content.
C25_LongTextTwoChunks ==
    (legalCalls # << >> /\ NoMarker /\ TextLength(legalContent) > maxChunkSize) =>
        LET longest == Longest(Sentences(legalContent))
        IN  \A n \in 1..Len(legalCalls) :
                /\ Len(legalCalls[n].chunks) >= 2
                /\ \A c \in 1..Len(legalCalls[n].chunks) :
                      legalCalls[n].chunks[c].length <= maxChunkSize + longest

\* C25 amended: on a content without marker, a call returns at least two
\* chunks when at least two sentences are longer than 20 characters and
\* these together are longer than 1200 characters; and when at least one
\* sentence is longer than 20 characters, no chunk is longer than 1200
\* characters plus the length of the longest of them.
C25_SentencesPacked ==
    (legalCalls # << >> /\ NoMarker) =>
        LET sentences == splitIntoSentences(legalContent)
            longest == Longest(sentences)
        IN  /\ ( /\ Len(sentences) >= 2
                 /\ PackedLength(sentences, 1) - 2 * Len(sentences) > maxChunkSize )
               => \A n \in 1..Len(legalCalls) : Len(legalCalls[n].chunks) >= 2
            /\ sentences # << >> =>
                  \A n \in 1..Len(legalCalls) :
                      \A c \in 1..Len(legalCalls[n].chunks) :
                          legalCalls[n].chunks[c].length <= maxChunkSize + longest

\* C25 witness: a call on a content without marker has returned two chunks,
\* one of them longer than 1200 characters.
C25_Witness ==
    /\ Len(legalCalls) > 0
    /\ NoMarker
    /\ Len(legalCalls[1].chunks) = 2
    /\ \E c \in 1..2 : legalCalls[1].chunks[c].length > maxChunkSize

\* C32 as claimed: between the last request for one URL and the first
\* request for the next URL the crawl waits out the delay, on every path,
\* also when the processing of the earlier URL raised an error.
C32_DelayBetweenUrls ==
    \A n \in 1..(Len(crawlLog) - 1) :
        crawlLog[n].url # crawlLog[n + 1].url => crawlLog[n].op = "delay"

\* C36: at most one page is open at a time; no page is open when
\* validateUrl has returned (scrapeSingleSection is about to open its own
\* page or has returned null), nor when scrapeSingleSection has returned or
\* thrown, whatever the probe answered and whether or not the load threw.
C36_PagesClosed ==
    /\ openPages \in { 0, 1 }
    /\ crawlPc \in { "init", "threw", "loop", "scrape: newPage", "delay", "closing",
                     "returned" } => openPages = 0

\* C36 witness: scrapeSingleSection has returned null for the second URL
\* after its load threw, the probe of the first URL having been refused.
C36_Witness ==
    /\ crawlPc = "delay"
    /\ urlAt = 2
    /\ openPages = 0
    /\ crawlLog[Len(crawlLog)] = [ op |-> "load", url |-> allUrls[2], outcome |-> "threw" ]
    /\ \E n \in 1..Len(crawlLog) :
          /\ crawlLog[n].op = "probe"
          /\ crawlLog[n].url = allUrls[1]
          /\ crawlLog[n].outcome # HttpOk

\* The change record of the current run for the n-th processed document.
RecordOf(n) == FindChange(changeResults, processedContents[n].sourceUrl)

\* The writes of the current run that inserted a Document.
Inserts == SelectSeq(writeLog, LAMBDA w : w.path = "new" /\ w.outcome # "insert threw")

\* C35: every document of the write loop has exactly one change record with
\* its URL; when that record is 'updated' the document is written through
\* cleanup and update on the record's own resourceId, and when it is 'new'
\* through a Document insert. Documents are inserted by 'new' writes only,
\* and chunks of a Document stored before the run are removed only when an
\* 'updated' record names that Document.
C35_PathMatchesRecord ==
    InWriteLoop \/ pc = "done" =>
        /\ \A n \in 1..Len(writeLog) :
              /\ Len(RecordOf(n)) = 1
              /\ RecordOf(n)[1].changeType = "updated" =>
                    /\ writeLog[n].path = "updated"
                    /\ writeLog[n].resourceId = RecordOf(n)[1].resourceId
              /\ RecordOf(n)[1].changeType = "new" => writeLog[n].path = "new"
        /\ pc \in { "updated: update", "updated: embed" } =>
              /\ RecordOf(i)[1].changeType = "updated"
              /\ resourceId = RecordOf(i)[1].resourceId
        /\ pc = "new: embed" =>
              /\ RecordOf(i)[1].changeType = "new"
              /\ resourceId \notin DOMAIN atStart[1]
        /\ Len(resources) = Len(atStart[1]) + Len(Inserts)
                                + (IF pc = "new: embed" THEN 1 ELSE 0)
        /\ \A id \in DOMAIN atStart[1] :
              (\E k \in 1..Len(RowsOf(atStart[2], id)) :
                   RowsOf(atStart[2], id)[k] \notin Range(RowsOf(embeddings, id)))
              => \E n \in 1..Len(changeResults) :
                     /\ changeResults[n].changeType = "updated"
                     /\ changeResults[n].resourceId = id

\* C35 witness: a run has written one document through the update path and
\* another through the insert path.
C35_Witness ==
    /\ pc = "done"
    /\ \E m, n \in 1..Len(writeLog) :
          /\ writeLog[m].path = "updated" /\ writeLog[m].outcome = "written"
          /\ writeLog[n].path = "new" /\ writeLog[n].outcome = "written"

\* The Documents whose write threw at the embedding stage in the last
\* completed run, paired with the position of the same page in this run's
\* scrape: the run scrapes the same content for the Document's URL.
FailedThenSame ==
    { d \in previous.failed \X (1..Len(scrapedContents)) :
        /\ d[1] \in DOMAIN atStart[1]
        /\ atStart[1][d[1]].sourceUrl = scrapedContents[d[2]].url
        /\ scrapedContents[d[2]] \in Range(previous.scraped) }

\* The embedding rows a complete write of the page stores for a Document.
FullRows(id, page) == EmbeddingRows(id, processLegalText(page).chunks)

\* C34: a Document whose write threw in the embedding stage keeps the new
\* contentHash; in a later populate run that scrapes the same content, every
\* lookup that returns this Document classifies the page 'unchanged' (and a
\* lookup that returns does so when no other row has the URL), no write is
\* made on the Document, and its embedding rows stay as the failure left
\* them, fewer than a complete write stores.
C34_FailureNotRepaired ==
    pc \in { "detect", "write", "updated: update", "updated: embed", "new: embed",
             "done" } =>
        \A d \in FailedThenSame :
            LET id == d[1]
                n == d[2]
                page == scrapedContents[n]
            IN  /\ atStart[1][id].contentHash = page.contentHash
                /\ resources[id].contentHash = page.contentHash
                /\ n <= Len(changeResults) =>
                       /\ (HasResourceId(changeResults[n]) /\ changeResults[n].resourceId = id)
                              => changeResults[n].changeType = "unchanged"
                       /\ (~lookupThrew[n] /\ RowsWithUrl(page.url) = { id })
                              => changeResults[n].changeType = "unchanged"
                /\ \A m \in 1..Len(writeLog) : writeLog[m].resourceId # id
                /\ resourceId # id
                /\ RowsOf(embeddings, id) = RowsOf(atStart[2], id)
                /\ Len(RowsOf(embeddings, id)) < Len(FullRows(id, page))
C34_Witness ==
    /\ pc = "done"
    /\ \E d \in FailedThenSame :
           /\ ~lookupThrew[d[2]]
           /\ changeResults[d[2]].changeType = "unchanged"
           /\ changeResults[d[2]].resourceId = d[1]
           /\ Len(RowsOf(embeddings, d[1])) < Len(FullRows(d[1], scrapedContents[d[2]]))

\* The windows chunkText has cut so far are as described: the first starts
\* at 0, each is non-empty and at most chunkSize long and is pushed trimmed,
\* each later one starts chunkOverlap before the end of the one before, and
\* there are at most as many as the text has characters; once the call has
\* returned, the last window ends at the end of the text and every position
\* lies in a window.
WindowsAsDescribed ==
    /\ Len(cutChunks) = Len(cutWindows)
    /\ Len(cutWindows) <= Len(cutText)
    /\ Len(cutWindows) > 0 => cutWindows[1].start = 0
    /\ \A n \in 1..Len(cutWindows) :
           /\ cutWindows[n].start < cutWindows[n].end
           /\ cutWindows[n].end - cutWindows[n].start <= chunkSize
           /\ cutChunks[n] = Trim(TextSlice(cutText, cutWindows[n].start, cutWindows[n].end))
           /\ n > 1 => cutWindows[n].start = cutWindows[n - 1].end - chunkOverlap
    /\ cutPc = "returned" =>
           /\ Len(cutText) = 0 <=> Len(cutWindows) = 0
           /\ Len(cutText) > 0 => cutWindows[Len(cutWindows)].end = Len(cutText)
           /\ \A pos \in 0..(Len(cutText) - 1) :
                  \E n \in 1..Len(cutWindows) :
                      cutWindows[n].start <= pos /\ pos < cutWindows[n].end

\* C37: with chunkOverlap < chunkSize every call of chunkText returns, and
\* its windows start at 0, span at most chunkSize characters, start
\* chunkOverlap before the previous window's end, end at the end of the text
\* and cover every character position.
C37_ChunkTextWindows ==
    /\ [](chunkOverlap < chunkSize => WindowsAsDescribed)
    /\ (chunkOverlap < chunkSize) ~> (cutPc = "returned")
C37_Witness ==
    /\ cutPc = "returned"
    /\ chunkOverlap > 0
    /\ Len(cutWindows) >= 2
    /\ cutWindows[Len(cutWindows)].end - cutWindows[Len(cutWindows)].start < chunkSize

\* How the loop of the script ended for a resource: the outcomes logged for
\* its id.
FillOutcomes(id) == { fillLog[n].outcome : n \in { m \in 1..Len(fillLog) : fillLog[m].id = id } }

\* C33 as claimed: when createMissingEmbeddings has returned, every resource
\* that had no embeddings row and has content has been processed, and has
\* embeddings rows unless its processing threw; every resource that had a
\* row, or has no content, has the rows it had.
C33_CreatesMissing ==
    fillPc = "returned" =>
        \A id \in DOMAIN resources :
            IF RowsOf(fillStart, id) = << >> /\ ~NoContent(resources[id])
            THEN /\ FillOutcomes(id) # { }
                 /\ FillOutcomes(id) = { "created" } => RowsOf(embeddings, id) # << >>
            ELSE RowsOf(embeddings, id) = RowsOf(fillStart, id)

\* The word occurs in the characters starting at position k.
OccursAt(word, chars, k) ==
    /\ k + Len(word) - 1 <= Len(chars)
    /\ \A j \in 1..Len(word) : chars[k + j - 1] = word[j]

\* The word is a substring of the characters.
Occurs(word, chars) == \E k \in 1..(Len(chars) + 1) : OccursAt(word, chars, k)

\* The positions of the text that lie in an occurrence of a listed
\* abbreviation.
InAbbreviation ==
    { p \in 1..Len(splitText) :
        \E a \in 1..Len(legalAbbrevs) : \E k \in 1..p :
            OccursAt(legalAbbrevs[a], splitText, k) /\ p < k + Len(legalAbbrevs[a]) }

\* C31 as claimed: the split removes no character standing for a position
\* inside a listed abbreviation of the text; when splitIntoSentences has
\* returned, no returned sentence holds a placeholder and every returned
\* sentence is a substring of the text.
C31_ReversibleProtection ==
    /\ splitPc \in { "split", "returned" } =>
           \A k \in 1..Len(processedText) :
               InSeparator(processedText, k) =>
                   \A p \in processedText[k].lo..processedText[k].hi : p \notin InAbbreviation
    /\ splitPc = "returned" =>
           \A n \in 1..Len(splitSentences) :
               /\ \A index \in 0..(Len(legalAbbrevs) - 1) :
                      ~Occurs(Placeholder(index), splitSentences[n])
               /\ Occurs(splitSentences[n], splitText)

====
